---- MODULE Spec2Model ----
(***************************************************************************)
(* ObservableContainer<T, ActualContainer, Allocator>: the thread-safe,    *)
(* handle-based notification engine.  Every public method is a sequence of *)
(* steps of the calling thread: a critical section under mutex_ (one step  *)
(* that takes the lock and runs the body, one step that leaves the scope   *)
(* of the lock_guard), then one call of notify() per event, each of which  *)
(* takes the lock again to decide between deferral and dispatch, releases  *)
(* it, and invokes the copied callbacks one by one.                        *)
(*                                                                         *)
(* Indices are 0-based as in the source; a TLA+ sequence s holds element i *)
(* at s[i + 1].                                                            *)
(***************************************************************************)
EXTENDS Integers, Sequences, FiniteSets, TLC

\* ------------------------------------------------------------------ bounds
MaxLen == 2          \* longest element sequence explored
MaxDepth == 2        \* deepest nesting of beginUpdate explored
MaxObservers == 2    \* addObserver calls explored in one run
MaxBurst == 2        \* operations that overlap in time before all threads rest
MaxRegistered == 3   \* addObserver calls explored in the run of the registry

Threads == {1, 2}
Containers == {1, 2}
Values == {1, 2}

\* std::nullopt of the optional event fields, and an unlocked std::mutex.
nullopt == -1
NoThread == 0

VARIABLES
    \* --- members of each ObservableContainer object
    data_, observers_, defer_level_, batch_changed_, mutex_, is_moved_from_,
    \* --- inline static member shared by all containers of one element type
    nextHandleId_,
    \* --- the frame of each thread's current call
    pc,                             \* where the thread is in its method
    this,                           \* the container the method was called on
    args,                           \* the arguments of the call
    handle,                         \* addObserver: the local `handle`
    pending,                        \* notify() calls the method still makes
    observers_to_call_functions,    \* notify: the copied callbacks not yet invoked
    should_call_observers,          \* notify: the local flag of that name
    ret,                            \* the value the last call returned
    \* --- observation (history) variables, read by no step of the program
    log,            \* callback invocations since all threads last rested
    bursts,         \* operations started since all threads last rested
    nextCb,         \* identities given to the std::function objects registered
    removedCbs,     \* callbacks registered under a handle for which a removeObserver
                    \*   call has returned true
    clearedCbs,     \* callbacks whose registry an assignment or a move has cleared
    changed,        \* per container: contents changed since the outermost batch opened
    nested,         \* per container: a batch was opened inside that batch
    contents,       \* per container: the mutations applied in order, by definition
    pre,            \* per thread: the object's state when its critical section began,
                    \*             and the events the method then reports
    issued,         \* handles that addObserver calls have returned
    suppressed,     \* events notify() has absorbed into batch_changed_
    \* --- the ScopedModifier objects of each thread, innermost scope last
    scopes

objectVars == <<data_, observers_, defer_level_, batch_changed_, mutex_, is_moved_from_>>
frameVars == <<pc, this, args, handle, pending, observers_to_call_functions,
               should_call_observers, ret>>
ghostVars == <<log, bursts, nextCb, removedCbs, clearedCbs, changed, nested, contents,
               pre, issued, suppressed>>
vars == <<objectVars, nextHandleId_, frameVars, ghostVars, scopes>>

\* ------------------------------------------------------------ ChangeEvent
ChangeType == {"ElementAdded", "ElementRemoved", "ElementModified", "SizeChanged",
               "BatchUpdate"}

\* The struct as the tests know it has a fifth optional member, newSize,
\* whose constructor argument defaults to std::nullopt; notify (line 129)
\* constructs every event from four arguments.
ChangeEvent(type, idx, old_v, new_v) ==
    [type |-> type, index |-> idx, oldValue |-> old_v, newValue |-> new_v,
     newSize |-> nullopt]

NoArgs == [op |-> "none", i |-> nullopt, v |-> nullopt, h |-> nullopt, cb |-> nullopt,
           other |-> nullopt]
NoRet == [handle |-> nullopt, removed |-> FALSE, thrown |-> FALSE]
NoPre == [depth |-> 0, flag |-> FALSE, changed |-> FALSE, data |-> <<>>, obs |-> <<>>,
          events |-> <<>>]

\* An insert that ignores the position and appends.
InsertAtBack(s, i, v) == s \o <<v>>

\* std::vector::insert(pos, value), pos = begin() + i.

\* ------------------------------------------------- the wrapped sequence
\* ActualContainer::insert(pos, value) with pos = begin() + i.
InsertAt(s, i, v) == SubSeq(s, 1, i) \o <<v>> \o SubSeq(s, i + 1, Len(s))
\* An erase that ignores the position and removes the last element.
EraseAtBack(s, i) == SubSeq(s, 1, Len(s) - 1)

\* std::vector::erase(pos), pos = begin() + i.

\* ActualContainer::erase(pos) with pos = begin() + i.
EraseAt(s, i) == SubSeq(s, 1, i) \o SubSeq(s, i + 2, Len(s))
\* ContainerAccess::get / ContainerAccess::set.
Get(s, i) == s[i + 1]
Set(s, i, v) == [s EXCEPT ![i + 1] = v]
PopBack(s) == SubSeq(s, 1, Len(s) - 1)

\* ------------------------------------------------------------- registry
RECURSIVE Callbacks(_)
Callbacks(obs) == IF obs = <<>> THEN <<>> ELSE <<Head(obs)[2]>> \o Callbacks(Tail(obs))
CallbackSet(obs) == {obs[k][2] : k \in 1..Len(obs)}

\* A removal that erases the front entry, whatever its handle.
RemoveIfFirst(obs, h) == IF obs = <<>> THEN <<>> ELSE Tail(obs)

\* std::list::remove_if: the entries for which the predicate is false, in order.
RECURSIVE RemoveIf(_, _)
RemoveIf(obs, h) ==
    IF obs = <<>> THEN <<>>
    ELSE IF Head(obs)[1] = h THEN RemoveIf(Tail(obs), h)
    ELSE <<Head(obs)>> \o RemoveIf(Tail(obs), h)

\* A notify that defers whatever the type of the event.
ShouldDeferAnyType(type, level) == level > 0

\* notify: `type != ChangeType::BatchUpdate && defer_level_ > 0`.
ShouldDefer(type, level) == type # "BatchUpdate" /\ level > 0

\* endUpdate: `defer_level_ == 0 && batch_changed_`, tested after the decrement.
BatchCompleteAnyDepth(level, flag) == flag
BatchComplete(level, flag) == level = 0 /\ flag

\* ------------------------------------------------------------- quiescence
Resting == \A t \in Threads : pc[t] = "idle"


\* Calls in progress on container c whose method is one of `names` and whose
\* critical section has not run yet.
Entering(c, names) == Cardinality({t \in Threads : pc[t] \in names /\ this[t] = c})

\* ------------------------------------------------------------------- Init
Init ==
    /\ data_ = [c \in Containers |-> <<>>]
    /\ observers_ = [c \in Containers |-> <<>>]
    /\ defer_level_ = [c \in Containers |-> 0]
    /\ batch_changed_ = [c \in Containers |-> FALSE]
    /\ mutex_ = [c \in Containers |-> NoThread]
    /\ is_moved_from_ = [c \in Containers |-> FALSE]
    /\ nextHandleId_ = 0
    /\ pc = [t \in Threads |-> "idle"]
    /\ this = [t \in Threads |-> 1]
    /\ args = [t \in Threads |-> NoArgs]
    /\ handle = [t \in Threads |-> 0]
    /\ pending = [t \in Threads |-> <<>>]
    /\ observers_to_call_functions = [t \in Threads |-> <<>>]
    /\ should_call_observers = [t \in Threads |-> FALSE]
    /\ ret = [t \in Threads |-> NoRet]
    /\ log = <<>>
    /\ bursts = 0
    /\ nextCb = 0
    /\ removedCbs = {}
    /\ clearedCbs = {}
    /\ scopes = [t \in Threads |-> <<>>]
    /\ changed = [c \in Containers |-> FALSE]
    /\ nested = [c \in Containers |-> FALSE]
    /\ contents = [c \in Containers |-> <<>>]
    /\ pre = [t \in Threads |-> NoPre]
    /\ issued = {}
    /\ suppressed = {}

\* ------------------------------------------------------- a method is called
\* Thread t calls method `name` of container c with arguments a.  The
\* observation window (log, suppressed) restarts when no call is in progress.
Enter(t, c, name, a) ==
    /\ pc[t] = "idle"
    /\ Resting \/ bursts < MaxBurst
    /\ pc' = [pc EXCEPT ![t] = name]
    /\ this' = [this EXCEPT ![t] = c]
    /\ args' = [args EXCEPT ![t] = [a EXCEPT !.op = name]]
    /\ log' = IF Resting THEN <<>> ELSE log
    /\ suppressed' = IF Resting THEN {} ELSE suppressed
    /\ bursts' = IF Resting THEN 1 ELSE bursts + 1
    /\ nextCb' = IF name = "addObserver" THEN a.cb ELSE nextCb
    /\ UNCHANGED <<objectVars, nextHandleId_, handle, pending,
                   observers_to_call_functions, should_call_observers, ret, removedCbs,
                   clearedCbs, changed, nested, contents, pre, issued>>

\* A call made by the program itself, which leaves its ScopedModifier objects
\* as they are.
Call(t, c, name, a) == Enter(t, c, name, a) /\ UNCHANGED scopes

\* The method returns to its caller, which goes on to something else.
Return(t) ==
    /\ pc[t] = "done"
    /\ pc' = [pc EXCEPT ![t] = "idle"]
    /\ args' = [args EXCEPT ![t] = NoArgs]
    /\ ret' = [ret EXCEPT ![t] = NoRet]
    /\ pre' = [pre EXCEPT ![t] = NoPre]
    /\ handle' = [handle EXCEPT ![t] = 0]
    /\ issued' = IF args[t].op = "addObserver" THEN issued \cup {ret[t].handle} ELSE issued
    /\ UNCHANGED <<objectVars, nextHandleId_, this, pending,
                   observers_to_call_functions, should_call_observers, log, bursts,
                   nextCb, removedCbs, clearedCbs, scopes, changed, nested, contents, suppressed>>

\* ------------------------------------------------ leaving a lock_guard scope
\* The closing brace of a critical section: the lock_guard releases its mutex
\* (the scoped_lock of an assignment, both); the method goes on to its notify()
\* calls, or returns when it has none to make.
Unlock(t) ==
    /\ pc[t] = "unlock"
    /\ mutex_' = [c \in Containers |-> IF mutex_[c] = t THEN NoThread ELSE mutex_[c]]
    /\ pc' = [pc EXCEPT ![t] = IF pending[t] = <<>> THEN "done" ELSE "notify"]
    /\ UNCHANGED <<data_, observers_, defer_level_, batch_changed_, is_moved_from_,
                   nextHandleId_, this, args, handle, pending,
                   observers_to_call_functions, should_call_observers, ret, ghostVars, scopes>>

\* ------------------------------------------------------------------ notify
\* After one notify() call: the next one, or the return of the method.
AfterNotify(t) == IF Len(pending[t]) > 1 THEN "notify" ELSE "done"

\* A notify without the test of is_moved_from_.
NotifyEnterIgnoringMovedFrom(t) ==
    /\ pc[t] = "notify"
    /\ pc' = [pc EXCEPT ![t] = "notify_lock"]
    /\ UNCHANGED <<objectVars, nextHandleId_, this, args, handle, pending,
                   observers_to_call_functions, should_call_observers, ret, ghostVars,
                   scopes>>

\* notify, line 109: the unlocked test of is_moved_from_.
NotifyEnter(t) ==
    /\ pc[t] = "notify"
    /\ IF is_moved_from_[this[t]]
       THEN /\ pc' = [pc EXCEPT ![t] = AfterNotify(t)]
            /\ pending' = [pending EXCEPT ![t] = Tail(pending[t])]
       ELSE /\ pc' = [pc EXCEPT ![t] = "notify_lock"]
            /\ UNCHANGED pending
    /\ UNCHANGED <<objectVars, nextHandleId_, this, args, handle,
                   observers_to_call_functions, should_call_observers, ret, ghostVars, scopes>>

\* A notify that drops a deferred event without recording it.
NotifyLockWithoutRecord(t) ==
    LET c == this[t]
        ev == Head(pending[t])
    IN  /\ pc[t] = "notify_lock"
        /\ mutex_[c] = NoThread
        /\ mutex_' = [mutex_ EXCEPT ![c] = t]
        /\ IF ShouldDefer(ev.type, defer_level_[c])
           THEN /\ batch_changed_' = batch_changed_
                /\ observers_to_call_functions' =
                       [observers_to_call_functions EXCEPT ![t] = <<>>]
                /\ should_call_observers' = [should_call_observers EXCEPT ![t] = FALSE]
                /\ suppressed' = suppressed \cup
                       {[by |-> t, type |-> ev.type, applied_depth |-> pre[t].depth]}
           ELSE /\ observers_to_call_functions' =
                       [observers_to_call_functions EXCEPT ![t] = Callbacks(observers_[c])]
                /\ should_call_observers' = [should_call_observers EXCEPT ![t] = TRUE]
                /\ UNCHANGED <<batch_changed_, suppressed>>
        /\ pc' = [pc EXCEPT ![t] = "notify_unlock"]
        /\ UNCHANGED <<data_, observers_, defer_level_, is_moved_from_, nextHandleId_,
                       this, args, handle, pending, ret, log, bursts, nextCb,
                       removedCbs, clearedCbs, scopes, changed, nested, contents, pre, issued>>

\* notify, lines 115-124: under the lock, either record the deferred change or
\* copy the callbacks of all registered observers.
NotifyLock(t) ==
    LET c == this[t]
        ev == Head(pending[t])
    IN  /\ pc[t] = "notify_lock"
        /\ mutex_[c] = NoThread
        /\ mutex_' = [mutex_ EXCEPT ![c] = t]
        /\ IF ShouldDefer(ev.type, defer_level_[c])
           THEN /\ batch_changed_' = [batch_changed_ EXCEPT ![c] = TRUE]
                /\ observers_to_call_functions' =
                       [observers_to_call_functions EXCEPT ![t] = <<>>]
                /\ should_call_observers' = [should_call_observers EXCEPT ![t] = FALSE]
                /\ suppressed' = suppressed \cup
                       {[by |-> t, type |-> ev.type, applied_depth |-> pre[t].depth]}
           ELSE /\ observers_to_call_functions' =
                       [observers_to_call_functions EXCEPT ![t] = Callbacks(observers_[c])]
                /\ should_call_observers' = [should_call_observers EXCEPT ![t] = TRUE]
                /\ UNCHANGED <<batch_changed_, suppressed>>
        /\ pc' = [pc EXCEPT ![t] = "notify_unlock"]
        /\ UNCHANGED <<data_, observers_, defer_level_, is_moved_from_, nextHandleId_,
                       this, args, handle, pending, ret, log, bursts, nextCb,
                       removedCbs, clearedCbs, scopes, changed, nested, contents, pre, issued>>

\* A notify whose lock_guard lives until the function returns: the callbacks
\* are invoked with mutex_ still held.
NotifyUnlockAfterDispatch(t) ==
    /\ pc[t] = "notify_unlock"
    /\ IF observers_to_call_functions[t] = <<>>
       THEN /\ pc' = [pc EXCEPT ![t] = AfterNotify(t)]
            /\ pending' = [pending EXCEPT ![t] = Tail(pending[t])]
            /\ mutex_' = [mutex_ EXCEPT ![this[t]] = NoThread]
       ELSE /\ pc' = [pc EXCEPT ![t] = "dispatch"]
            /\ UNCHANGED <<pending, mutex_>>
    /\ UNCHANGED <<data_, observers_, defer_level_, batch_changed_, is_moved_from_,
                   nextHandleId_, this, args, handle, observers_to_call_functions,
                   should_call_observers, ret, ghostVars, scopes>>

\* notify, line 125: the lock_guard goes out of scope; with no callback to
\* invoke (deferred, or no observer) notify returns.
NotifyUnlock(t) ==
    /\ pc[t] = "notify_unlock"
    /\ mutex_' = [mutex_ EXCEPT ![this[t]] = NoThread]
    /\ IF observers_to_call_functions[t] = <<>>
       THEN /\ pc' = [pc EXCEPT ![t] = AfterNotify(t)]
            /\ pending' = [pending EXCEPT ![t] = Tail(pending[t])]
       ELSE /\ pc' = [pc EXCEPT ![t] = "dispatch"]
            /\ UNCHANGED pending
    /\ UNCHANGED <<data_, observers_, defer_level_, batch_changed_, is_moved_from_,
                   nextHandleId_, this, args, handle, observers_to_call_functions,
                   should_call_observers, ret, ghostVars, scopes>>

\* notify, lines 129-133: one iteration of the loop over the copied callbacks.
Invoke(t) ==
    LET ev == Head(pending[t])
        rest == Tail(observers_to_call_functions[t])
    IN  /\ pc[t] = "dispatch"
        /\ log' = Append(log, [cb |-> Head(observers_to_call_functions[t]),
                               c |-> this[t], by |-> t, type |-> ev.type,
                               index |-> ev.index, oldValue |-> ev.oldValue,
                               newValue |-> ev.newValue, newSize |-> ev.newSize,
                               applied_depth |-> pre[t].depth])
        /\ observers_to_call_functions' = [observers_to_call_functions EXCEPT ![t] = rest]
        /\ IF rest = <<>>
           THEN /\ pc' = [pc EXCEPT ![t] = AfterNotify(t)]
                /\ pending' = [pending EXCEPT ![t] = Tail(pending[t])]
           ELSE UNCHANGED <<pc, pending>>
        /\ UNCHANGED <<objectVars, nextHandleId_, this, args, handle, ret,
                       should_call_observers, bursts, nextCb, removedCbs, clearedCbs, scopes, changed,
                       nested, contents, pre, issued, suppressed>>

\* notify, lines 129-133, when observer_func(event) throws: notify has no
\* handler, so the exception leaves the loop, notify and the method that
\* called it; the callbacks and the notify calls that remained are skipped.
InvokeThrows(t) ==
    LET ev == Head(pending[t])
    IN  /\ pc[t] = "dispatch"
        /\ log' = Append(log, [cb |-> Head(observers_to_call_functions[t]),
                               c |-> this[t], by |-> t, type |-> ev.type,
                               index |-> ev.index, oldValue |-> ev.oldValue,
                               newValue |-> ev.newValue, newSize |-> ev.newSize,
                               applied_depth |-> pre[t].depth])
        /\ observers_to_call_functions' = [observers_to_call_functions EXCEPT ![t] = <<>>]
        /\ pending' = [pending EXCEPT ![t] = <<>>]
        /\ ret' = [ret EXCEPT ![t].thrown = TRUE]
        /\ pc' = [pc EXCEPT ![t] = "done"]
        /\ UNCHANGED <<objectVars, nextHandleId_, this, args, handle,
                       should_call_observers, bursts, nextCb, removedCbs, clearedCbs,
                       scopes, changed, nested, contents, pre, issued, suppressed>>

\* ------------------------------------------------ beginUpdate / endUpdate
CallBeginUpdate(t, c) ==
    /\ defer_level_[c] + Entering(c, {"beginUpdate"}) < MaxDepth
    /\ Call(t, c, "beginUpdate", NoArgs)

BeginUpdate(t) ==
    LET c == this[t]
    IN  /\ pc[t] = "beginUpdate"
        /\ mutex_[c] = NoThread
        /\ mutex_' = [mutex_ EXCEPT ![c] = t]
        /\ defer_level_' = [defer_level_ EXCEPT ![c] = @ + 1]
        /\ pending' = [pending EXCEPT ![t] = <<>>]
        /\ pre' = [pre EXCEPT ![t] = [depth |-> defer_level_[c],
                                      flag |-> batch_changed_[c],
                                      changed |-> changed[c],
                                      data |-> data_[c], obs |-> observers_[c],
                                      events |-> <<>>]]
        /\ changed' = [changed EXCEPT ![c] = IF defer_level_[c] = 0 THEN FALSE ELSE @]
        /\ nested' = [nested EXCEPT ![c] = defer_level_[c] > 0]
        /\ pc' = [pc EXCEPT ![t] = "unlock"]
        /\ UNCHANGED <<data_, observers_, batch_changed_, is_moved_from_, nextHandleId_,
                       this, args, handle, observers_to_call_functions,
                       should_call_observers, ret, log, bursts, nextCb, removedCbs, clearedCbs, scopes,
                       contents, issued, suppressed>>

CallEndUpdate(t, c) == Call(t, c, "endUpdate", NoArgs)

\* An endUpdate that decrements without testing defer_level_ > 0.
EndUpdateUnguarded(t) ==
    LET c == this[t]
        level == defer_level_[c] - 1
        should_notify_batch_update == BatchComplete(level, batch_changed_[c])
    IN  /\ pc[t] = "endUpdate"
        /\ mutex_[c] = NoThread
        /\ mutex_' = [mutex_ EXCEPT ![c] = t]
        /\ defer_level_' = [defer_level_ EXCEPT ![c] = level]
        /\ batch_changed_' = [batch_changed_ EXCEPT ![c] =
                                 IF should_notify_batch_update THEN FALSE ELSE @]
        /\ pending' = [pending EXCEPT ![t] =
                          IF should_notify_batch_update
                          THEN <<ChangeEvent("BatchUpdate", nullopt, nullopt, nullopt)>>
                          ELSE <<>>]
        /\ pre' = [pre EXCEPT ![t] = [depth |-> defer_level_[c],
                                      flag |-> batch_changed_[c],
                                      changed |-> changed[c],
                                      data |-> data_[c], obs |-> observers_[c],
                                      events |-> pending'[t]]]
        /\ changed' = [changed EXCEPT ![c] = IF level = 0 THEN FALSE ELSE @]
        /\ UNCHANGED nested
        /\ pc' = [pc EXCEPT ![t] = "unlock"]
        /\ UNCHANGED <<data_, observers_, is_moved_from_, nextHandleId_, this, args,
                       handle, observers_to_call_functions, should_call_observers, ret,
                       log, bursts, nextCb, removedCbs, clearedCbs, scopes, contents, issued, suppressed>>

\* endUpdate, lines 217-228: the critical section.

\* An endUpdate that leaves batch_changed_ set for the dispatch to clear.
EndUpdateKeepingFlag(t) ==
    LET c == this[t]
        level == IF defer_level_[c] > 0 THEN defer_level_[c] - 1 ELSE 0
        should_notify_batch_update ==
            defer_level_[c] > 0 /\ BatchComplete(level, batch_changed_[c])
    IN  /\ pc[t] = "endUpdate"
        /\ mutex_[c] = NoThread
        /\ mutex_' = [mutex_ EXCEPT ![c] = t]
        /\ defer_level_' = [defer_level_ EXCEPT ![c] = level]
        /\ batch_changed_' = batch_changed_
        /\ pending' = [pending EXCEPT ![t] =
                          IF should_notify_batch_update
                          THEN <<ChangeEvent("BatchUpdate", nullopt, nullopt, nullopt)>>
                          ELSE <<>>]
        /\ pre' = [pre EXCEPT ![t] = [depth |-> defer_level_[c],
                                      flag |-> batch_changed_[c],
                                      changed |-> changed[c],
                                      data |-> data_[c], obs |-> observers_[c],
                                      events |-> pending'[t]]]
        /\ changed' = [changed EXCEPT ![c] = IF level = 0 THEN FALSE ELSE @]
        /\ UNCHANGED nested
        /\ pc' = [pc EXCEPT ![t] = "unlock"]
        /\ UNCHANGED <<data_, observers_, is_moved_from_, nextHandleId_, this, args,
                       handle, observers_to_call_functions, should_call_observers, ret,
                       log, bursts, nextCb, removedCbs, clearedCbs, scopes, contents, issued, suppressed>>

EndUpdate(t) ==
    LET c == this[t]
        level == IF defer_level_[c] > 0 THEN defer_level_[c] - 1 ELSE 0
        should_notify_batch_update ==
            defer_level_[c] > 0 /\ BatchComplete(level, batch_changed_[c])
    IN  /\ pc[t] = "endUpdate"
        /\ mutex_[c] = NoThread
        /\ mutex_' = [mutex_ EXCEPT ![c] = t]
        /\ defer_level_' = [defer_level_ EXCEPT ![c] = level]
        /\ batch_changed_' = [batch_changed_ EXCEPT ![c] =
                                 IF should_notify_batch_update THEN FALSE ELSE @]
        /\ pending' = [pending EXCEPT ![t] =
                          IF should_notify_batch_update
                          THEN <<ChangeEvent("BatchUpdate", nullopt, nullopt, nullopt)>>
                          ELSE <<>>]
        /\ pre' = [pre EXCEPT ![t] = [depth |-> defer_level_[c],
                                      flag |-> batch_changed_[c],
                                      changed |-> changed[c],
                                      data |-> data_[c], obs |-> observers_[c],
                                      events |-> pending'[t]]]
        /\ changed' = [changed EXCEPT ![c] = IF level = 0 THEN FALSE ELSE @]
        /\ UNCHANGED nested
        /\ pc' = [pc EXCEPT ![t] = "unlock"]
        /\ UNCHANGED <<data_, observers_, is_moved_from_, nextHandleId_, this, args,
                       handle, observers_to_call_functions, should_call_observers, ret,
                       log, bursts, nextCb, removedCbs, clearedCbs, scopes, contents, issued, suppressed>>


\* ------------------------------------------- addObserver / removeObserver
\* The caller passes a std::function object; nextCb + 1 names it.
CallAddObserver(t, c) ==
    /\ nextCb < MaxObservers
    /\ Call(t, c, "addObserver", [NoArgs EXCEPT !.cb = nextCb + 1])

\* An addObserver that numbers the observers of one container by their count.
AddObserverLoadFromSize(t) ==
    LET c == this[t]
    IN  /\ pc[t] = "addObserver"
        /\ mutex_[c] = NoThread
        /\ mutex_' = [mutex_ EXCEPT ![c] = t]
        /\ handle' = [handle EXCEPT ![t] = Len(observers_[c]) + 1]
        /\ pending' = [pending EXCEPT ![t] = <<>>]
        /\ pc' = [pc EXCEPT ![t] = "addObserver_store"]
        /\ UNCHANGED <<data_, observers_, defer_level_, batch_changed_, is_moved_from_,
                       nextHandleId_, this, args, observers_to_call_functions,
                       should_call_observers, ret, ghostVars, scopes>>

\* addObserver, line 236, first half of `++nextHandleId_`: the static counter
\* is read under this container's mutex_ only, which does not order the
\* access against a call on another container.
AddObserverLoad(t) ==
    LET c == this[t]
    IN  /\ pc[t] = "addObserver"
        /\ mutex_[c] = NoThread
        /\ mutex_' = [mutex_ EXCEPT ![c] = t]
        /\ handle' = [handle EXCEPT ![t] = nextHandleId_ + 1]
        /\ pending' = [pending EXCEPT ![t] = <<>>]
        /\ pc' = [pc EXCEPT ![t] = "addObserver_store"]
        /\ UNCHANGED <<data_, observers_, defer_level_, batch_changed_, is_moved_from_,
                       nextHandleId_, this, args, observers_to_call_functions,
                       should_call_observers, ret, ghostVars, scopes>>

\* An addObserver that puts the new pair at the front of observers_.
AddObserverStoreFront(t) ==
    LET c == this[t]
    IN  /\ pc[t] = "addObserver_store"
        /\ nextHandleId_' = handle[t]
        /\ observers_' = [observers_ EXCEPT ![c] = <<<<handle[t], args[t].cb>>>> \o @]
        /\ ret' = [ret EXCEPT ![t].handle = handle[t]]
        /\ pc' = [pc EXCEPT ![t] = "unlock"]
        /\ UNCHANGED <<data_, defer_level_, batch_changed_, mutex_, is_moved_from_,
                       this, args, handle, pending, observers_to_call_functions,
                       should_call_observers, ghostVars, scopes>>

\* addObserver, lines 236-238: the incremented value is written back; the pair
\* is appended to observers_; the handle is the return value.
AddObserverStore(t) ==
    LET c == this[t]
    IN  /\ pc[t] = "addObserver_store"
        /\ nextHandleId_' = handle[t]
        /\ observers_' = [observers_ EXCEPT ![c] = Append(@, <<handle[t], args[t].cb>>)]
        /\ ret' = [ret EXCEPT ![t].handle = handle[t]]
        /\ pc' = [pc EXCEPT ![t] = "unlock"]
        /\ UNCHANGED <<data_, defer_level_, batch_changed_, mutex_, is_moved_from_,
                       this, args, handle, pending, observers_to_call_functions,
                       should_call_observers, ghostVars, scopes>>

CallRemoveObserver(t, c, h) == Call(t, c, "removeObserver", [NoArgs EXCEPT !.h = h])

\* A removeObserver that edits observers_ without taking mutex_.
RemoveObserverUnlocked(t) ==
    LET c == this[t]
        kept == RemoveIf(observers_[c], args[t].h)
    IN  /\ pc[t] = "removeObserver"
        /\ UNCHANGED mutex_
        /\ observers_' = [observers_ EXCEPT ![c] = kept]
        /\ ret' = [ret EXCEPT ![t].removed = Len(kept) < Len(observers_[c])]
        /\ removedCbs' = removedCbs \cup
               IF Len(kept) < Len(observers_[c])
               THEN {observers_[c][k][2] :
                        k \in {j \in 1..Len(observers_[c]) : observers_[c][j][1] = args[t].h}}
               ELSE {}
        /\ pending' = [pending EXCEPT ![t] = <<>>]
        /\ pre' = [pre EXCEPT ![t] = [depth |-> defer_level_[c],
                                      flag |-> batch_changed_[c],
                                      changed |-> changed[c],
                                      data |-> data_[c], obs |-> observers_[c],
                                      events |-> <<>>]]
        /\ pc' = [pc EXCEPT ![t] = "unlock"]
        /\ UNCHANGED <<data_, defer_level_, batch_changed_, is_moved_from_,
                       nextHandleId_, this, args, handle, observers_to_call_functions,
                       should_call_observers, log, bursts, nextCb, clearedCbs, scopes, changed,
                       nested, contents, issued, suppressed>>

\* A removeObserver that returns `observers_.size() <= original_size`.
RemoveObserverSizeNotGreater(t) ==
    LET c == this[t]
        kept == RemoveIf(observers_[c], args[t].h)
    IN  /\ pc[t] = "removeObserver"
        /\ mutex_[c] = NoThread
        /\ mutex_' = [mutex_ EXCEPT ![c] = t]
        /\ observers_' = [observers_ EXCEPT ![c] = kept]
        /\ ret' = [ret EXCEPT ![t].removed = Len(kept) <= Len(observers_[c])]
        /\ removedCbs' = removedCbs \cup
               IF Len(kept) < Len(observers_[c])
               THEN {observers_[c][k][2] :
                        k \in {j \in 1..Len(observers_[c]) : observers_[c][j][1] = args[t].h}}
               ELSE {}
        /\ pending' = [pending EXCEPT ![t] = <<>>]
        /\ pre' = [pre EXCEPT ![t] = [depth |-> defer_level_[c],
                                      flag |-> batch_changed_[c],
                                      changed |-> changed[c],
                                      data |-> data_[c], obs |-> observers_[c],
                                      events |-> <<>>]]
        /\ pc' = [pc EXCEPT ![t] = "unlock"]
        /\ UNCHANGED <<data_, defer_level_, batch_changed_, is_moved_from_,
                       nextHandleId_, this, args, handle, observers_to_call_functions,
                       should_call_observers, log, bursts, nextCb, clearedCbs, scopes, changed,
                       nested, contents, issued, suppressed>>

\* removeObserver, lines 241-248.
RemoveObserver(t) ==
    LET c == this[t]
        kept == RemoveIf(observers_[c], args[t].h)
    IN  /\ pc[t] = "removeObserver"
        /\ mutex_[c] = NoThread
        /\ mutex_' = [mutex_ EXCEPT ![c] = t]
        /\ observers_' = [observers_ EXCEPT ![c] = kept]
        /\ ret' = [ret EXCEPT ![t].removed = Len(kept) < Len(observers_[c])]
        /\ removedCbs' = removedCbs \cup
               IF Len(kept) < Len(observers_[c])
               THEN {observers_[c][k][2] :
                        k \in {j \in 1..Len(observers_[c]) : observers_[c][j][1] = args[t].h}}
               ELSE {}
        /\ pending' = [pending EXCEPT ![t] = <<>>]
        /\ pre' = [pre EXCEPT ![t] = [depth |-> defer_level_[c],
                                      flag |-> batch_changed_[c],
                                      changed |-> changed[c],
                                      data |-> data_[c], obs |-> observers_[c],
                                      events |-> <<>>]]
        /\ pc' = [pc EXCEPT ![t] = "unlock"]
        /\ UNCHANGED <<data_, defer_level_, batch_changed_, is_moved_from_,
                       nextHandleId_, this, args, handle, observers_to_call_functions,
                       should_call_observers, log, bursts, nextCb, clearedCbs, scopes, changed,
                       nested, contents, issued, suppressed>>


\* --------------------------------------------------------------- mutations
\* What the abstract sequence of the specification becomes under each
\* operation (section 4.3), written by recursion on the sequence.
RECURSIVE SeqInsert(_, _, _)
SeqInsert(s, i, v) ==
    IF i = 0 \/ s = <<>> THEN <<v>> \o s ELSE <<Head(s)>> \o SeqInsert(Tail(s), i - 1, v)

RECURSIVE SeqErase(_, _)
SeqErase(s, i) ==
    IF s = <<>> THEN <<>>
    ELSE IF i = 0 THEN Tail(s) ELSE <<Head(s)>> \o SeqErase(Tail(s), i - 1)

RECURSIVE SeqReplace(_, _, _)
SeqReplace(s, i, v) ==
    IF s = <<>> THEN <<>>
    ELSE IF i = 0 THEN <<v>> \o Tail(s) ELSE <<Head(s)>> \o SeqReplace(Tail(s), i - 1, v)

SizeChanged == ChangeEvent("SizeChanged", nullopt, nullopt, nullopt)
BatchUpdate == ChangeEvent("BatchUpdate", nullopt, nullopt, nullopt)

\* The critical section of a mutating method of thread t: data_ becomes
\* `newdata` and the method will call notify() once per event of `evs`.
Mutate(t, name, newdata, evs, abstract) ==
    LET c == this[t]
    IN  /\ pc[t] = name
        /\ mutex_[c] = NoThread
        /\ mutex_' = [mutex_ EXCEPT ![c] = t]
        /\ data_' = [data_ EXCEPT ![c] = newdata]
        /\ pending' = [pending EXCEPT ![t] = evs]
        /\ pre' = [pre EXCEPT ![t] = [depth |-> defer_level_[c],
                                      flag |-> batch_changed_[c],
                                      changed |-> changed[c],
                                      data |-> data_[c], obs |-> observers_[c],
                                      events |-> evs]]
        /\ changed' = [changed EXCEPT ![c] =
                          @ \/ (defer_level_[c] > 0 /\ abstract # contents[c])]
        /\ contents' = [contents EXCEPT ![c] = abstract]
        /\ pc' = [pc EXCEPT ![t] = "unlock"]
        /\ UNCHANGED <<observers_, defer_level_, batch_changed_, is_moved_from_,
                       nextHandleId_, this, args, handle, observers_to_call_functions,
                       should_call_observers, ret, log, bursts, nextCb, removedCbs, clearedCbs, scopes,
                       nested, issued, suppressed>>

Room(c) == Len(data_[c]) + Entering(c, {"push_back", "insert"}) < MaxLen

CallPushBack(t, c, v) ==
    /\ Room(c)
    /\ Call(t, c, "push_back", [NoArgs EXCEPT !.v = v])

\* A push_back that reports the new element but not the new size.
PushBackWithoutSizeChanged(t) ==
    LET s == data_[this[t]]
        value == args[t].v
        pushed_at_index == Len(Append(s, value)) - 1
    IN  /\ pc[t] = "push_back"
        /\ Mutate(t, "push_back", Append(s, value),
                  <<ChangeEvent("ElementAdded", pushed_at_index, nullopt, value)>>,
                  contents[this[t]] \o <<value>>)

\* A push_back that reports the size after the operation as the index.
PushBackIndexAfter(t) ==
    LET s == data_[this[t]]
        value == args[t].v
        pushed_at_index == Len(Append(s, value))
    IN  /\ pc[t] = "push_back"
        /\ Mutate(t, "push_back", Append(s, value),
                  <<ChangeEvent("ElementAdded", pushed_at_index, nullopt, value),
                    SizeChanged>>,
                  contents[this[t]] \o <<value>>)

\* push_back, lines 261-270.
PushBack(t) ==
    LET s == data_[this[t]]
        value == args[t].v
        pushed_at_index == Len(Append(s, value)) - 1
    IN  /\ pc[t] = "push_back"
        /\ Mutate(t, "push_back", Append(s, value),
                  <<ChangeEvent("ElementAdded", pushed_at_index, nullopt, value),
                    SizeChanged>>,
                  contents[this[t]] \o <<value>>)

CallPopBack(t, c) == Call(t, c, "pop_back", NoArgs)

\* A pop_back that reports a size change although the container was empty.
PopBackAlwaysNotifies(t) ==
    LET s == data_[this[t]]
        abs == contents[this[t]]
    IN  /\ pc[t] = "pop_back"
        /\ IF s # <<>>
           THEN Mutate(t, "pop_back", PopBack(s),
                       <<ChangeEvent("ElementRemoved", Len(s) - 1, s[Len(s)], nullopt),
                         SizeChanged>>,
                       SeqErase(abs, Len(abs) - 1))
           ELSE Mutate(t, "pop_back", s, <<SizeChanged>>, SeqErase(abs, Len(abs) - 1))

\* pop_back, lines 272-289.
PopBack_(t) ==
    LET s == data_[this[t]]
        abs == contents[this[t]]
    IN  /\ pc[t] = "pop_back"
        /\ IF s # <<>>
           THEN Mutate(t, "pop_back", PopBack(s),
                       <<ChangeEvent("ElementRemoved", Len(s) - 1, s[Len(s)], nullopt),
                         SizeChanged>>,
                       SeqErase(abs, Len(abs) - 1))
           ELSE Mutate(t, "pop_back", s, <<>>, SeqErase(abs, Len(abs) - 1))

CallClear(t, c) == Call(t, c, "clear", NoArgs)

\* A clear that reports each removed element before the size change.
ClearReportingElements(t) ==
    LET s == data_[this[t]]
    IN  /\ pc[t] = "clear"
        /\ IF s # <<>>
           THEN Mutate(t, "clear", <<>>,
                       <<ChangeEvent("ElementRemoved", 0, Get(s, 0), nullopt), SizeChanged>>,
                       <<>>)
           ELSE Mutate(t, "clear", s, <<>>, <<>>)

\* clear, lines 356-368.

Clear(t) ==
    LET s == data_[this[t]]
    IN  /\ pc[t] = "clear"
        /\ IF s # <<>>
           THEN Mutate(t, "clear", <<>>, <<SizeChanged>>, <<>>)
           ELSE Mutate(t, "clear", s, <<>>, <<>>)

\* The caller obtains pos from this container: pos = begin() + i, 0 <= i <= size.
CallInsert(t, c, i, v) ==
    /\ Room(c)
    /\ i \in 0..Len(data_[c])
    /\ Call(t, c, "insert", [NoArgs EXCEPT !.i = i, !.v = v])

Insert(t) ==
    LET s == data_[this[t]]
        current_size == Len(s)
        insert_idx == args[t].i
        value == args[t].v
    IN  /\ pc[t] = "insert"
        /\ IF insert_idx >= 0 /\ insert_idx <= current_size
           THEN Mutate(t, "insert", InsertAt(s, insert_idx, value),
                       <<ChangeEvent("ElementAdded", insert_idx, nullopt, value),
                         SizeChanged>>,
                       SeqInsert(contents[this[t]], insert_idx, value))
           ELSE Mutate(t, "insert", s, <<>>, contents[this[t]])

CallErase(t, c, i) ==
    /\ i \in 0..Len(data_[c])
    /\ Call(t, c, "erase", [NoArgs EXCEPT !.i = i])

Erase(t) ==
    LET s == data_[this[t]]
        current_size == Len(s)
        erase_idx == args[t].i
    IN  /\ pc[t] = "erase"
        /\ IF erase_idx >= 0 /\ erase_idx < current_size
           THEN Mutate(t, "erase", EraseAt(s, erase_idx),
                       <<ChangeEvent("ElementRemoved", erase_idx, Get(s, erase_idx), nullopt),
                         SizeChanged>>,
                       SeqErase(contents[this[t]], erase_idx))
           ELSE Mutate(t, "erase", s, <<>>, SeqErase(contents[this[t]], erase_idx))

\* modify(size_t, const T&): the argument is an lvalue.
CallModify(t, c, i, v) == Call(t, c, "modify", [NoArgs EXCEPT !.i = i, !.v = v])

\* A modify that reports the change without the previous value.
ModifyWithoutOldValue(t) ==
    LET s == data_[this[t]]
        index == args[t].i
        newValue == args[t].v
    IN  /\ pc[t] = "modify"
        /\ IF index < Len(s) /\ Get(s, index) # newValue
           THEN Mutate(t, "modify", Set(s, index, newValue),
                       <<ChangeEvent("ElementModified", index, nullopt, newValue)>>,
                       SeqReplace(contents[this[t]], index, newValue))
           ELSE Mutate(t, "modify", s, <<>>, SeqReplace(contents[this[t]], index, newValue))

Modify(t) ==
    LET s == data_[this[t]]
        index == args[t].i
        newValue == args[t].v
    IN  /\ pc[t] = "modify"
        /\ IF index < Len(s) /\ Get(s, index) # newValue
           THEN Mutate(t, "modify", Set(s, index, newValue),
                       <<ChangeEvent("ElementModified", index, Get(s, index), newValue)>>,
                       SeqReplace(contents[this[t]], index, newValue))
           ELSE Mutate(t, "modify", s, <<>>, SeqReplace(contents[this[t]], index, newValue))

\* modify(size_t, T&&): the argument is an rvalue (a literal, a temporary).
CallModifyRvalue(t, c, i, v) ==
    Call(t, c, "modify_rvalue", [NoArgs EXCEPT !.i = i, !.v = v])

\* A modify that notifies without testing index < data_.size().
ModifyRvalueUnchecked(t) ==
    LET s == data_[this[t]]
        index == args[t].i
        newValue == args[t].v
    IN  /\ pc[t] = "modify_rvalue"
        /\ IF index < Len(s)
           THEN Mutate(t, "modify_rvalue", Set(s, index, newValue),
                       <<ChangeEvent("ElementModified", index, Get(s, index), newValue)>>,
                       SeqReplace(contents[this[t]], index, newValue))
           ELSE Mutate(t, "modify_rvalue", s,
                       <<ChangeEvent("ElementModified", index, nullopt, newValue)>>,
                       SeqReplace(contents[this[t]], index, newValue))

\* modify(size_t, T&&), lines 455-474.

ModifyRvalue(t) ==
    LET s == data_[this[t]]
        index == args[t].i
        newValue == args[t].v
        final_new_value == Get(Set(s, index, newValue), index)
    IN  /\ pc[t] = "modify_rvalue"
        /\ IF index < Len(s)
           THEN Mutate(t, "modify_rvalue", Set(s, index, newValue),
                       <<ChangeEvent("ElementModified", index, Get(s, index), final_new_value)>>,
                       SeqReplace(contents[this[t]], index, newValue))
           ELSE Mutate(t, "modify_rvalue", s, <<>>,
                       SeqReplace(contents[this[t]], index, newValue))

\* ---------------------------------------------------------- direct access
\* at(index), lines 312-315.  The caller then reads the element through the
\* returned T& (v = nullopt) or assigns v through it: `c.at(i) = v`.
CallAt(t, c, i, v) == Call(t, c, "at", [NoArgs EXCEPT !.i = i, !.v = v])

\* The lock_guard and ContainerAccess::get, which throws std::out_of_range
\* when index >= c.size() (lines 38-41).
At(t) ==
    LET c == this[t]
        index == args[t].i
    IN  /\ pc[t] = "at"
        /\ mutex_[c] = NoThread
        /\ mutex_' = [mutex_ EXCEPT ![c] = t]
        /\ ret' = [ret EXCEPT ![t].thrown = index >= Len(data_[c])]
        /\ pending' = [pending EXCEPT ![t] = <<>>]
        /\ pre' = [pre EXCEPT ![t] = [depth |-> defer_level_[c],
                                      flag |-> batch_changed_[c],
                                      changed |-> changed[c],
                                      data |-> data_[c], obs |-> observers_[c],
                                      events |-> <<>>]]
        /\ pc' = [pc EXCEPT ![t] = "at_unlock"]
        /\ UNCHANGED <<data_, observers_, defer_level_, batch_changed_, is_moved_from_,
                       nextHandleId_, this, args, handle, observers_to_call_functions,
                       should_call_observers, log, bursts, nextCb, removedCbs, clearedCbs, scopes, changed,
                       nested, contents, issued, suppressed>>

\* An at() whose mutex stays locked when the exception leaves it.
AtUnlockHeldOnThrow(t) ==
    /\ pc[t] = "at_unlock"
    /\ mutex_' = [c \in Containers |->
                     IF mutex_[c] = t /\ ~ret[t].thrown THEN NoThread ELSE mutex_[c]]
    /\ pc' = [pc EXCEPT ![t] = IF ret[t].thrown THEN "done" ELSE "reference"]
    /\ UNCHANGED <<data_, observers_, defer_level_, batch_changed_, is_moved_from_,
                   nextHandleId_, this, args, handle, pending,
                   observers_to_call_functions, should_call_observers, ret, ghostVars, scopes>>

\* The lock_guard of at() is destroyed, by the return or by the unwinding of
\* the exception; the reference is handed to the caller with the mutex free.
AtUnlock(t) ==
    /\ pc[t] = "at_unlock"
    /\ mutex_' = [c \in Containers |-> IF mutex_[c] = t THEN NoThread ELSE mutex_[c]]
    /\ pc' = [pc EXCEPT ![t] = IF ret[t].thrown THEN "done" ELSE "reference"]
    /\ UNCHANGED <<data_, observers_, defer_level_, batch_changed_, is_moved_from_,
                   nextHandleId_, this, args, handle, pending,
                   observers_to_call_functions, should_call_observers, ret, ghostVars, scopes>>

\* A use of the reference that reports the assignment as modify does.
UseReferenceNotifying(t) ==
    LET c == this[t]
        index == args[t].i
        value == args[t].v
        written == value # nullopt
    IN  /\ pc[t] = "reference"
        /\ data_' = [data_ EXCEPT ![c] = IF written THEN Set(@, index, value) ELSE @]
        /\ contents' = [contents EXCEPT ![c] =
                           IF written THEN SeqReplace(@, index, value) ELSE @]
        /\ pending' = [pending EXCEPT ![t] =
                          IF written
                          THEN <<ChangeEvent("ElementModified", index, Get(data_[c], index),
                                             value)>>
                          ELSE <<>>]
        /\ pc' = [pc EXCEPT ![t] = IF written THEN "notify" ELSE "done"]
        /\ UNCHANGED <<observers_, defer_level_, batch_changed_, mutex_, is_moved_from_,
                       nextHandleId_, this, args, handle, observers_to_call_functions,
                       should_call_observers, ret, log, bursts, nextCb, removedCbs, clearedCbs, scopes,
                       changed, nested, pre, issued, suppressed>>

\* The caller uses the T& that at() returned, outside any lock: it reads the
\* element, or assigns `value` to it.  Nothing of the container but the
\* element is touched.
UseReference(t) ==
    LET c == this[t]
        index == args[t].i
        value == args[t].v
        written == value # nullopt
    IN  /\ pc[t] = "reference"
        /\ data_' = [data_ EXCEPT ![c] = IF written THEN Set(@, index, value) ELSE @]
        /\ contents' = [contents EXCEPT ![c] =
                           IF written THEN SeqReplace(@, index, value) ELSE @]
        /\ pc' = [pc EXCEPT ![t] = "done"]
        /\ UNCHANGED <<observers_, defer_level_, batch_changed_, mutex_, is_moved_from_,
                       nextHandleId_, this, args, handle, pending,
                       observers_to_call_functions, should_call_observers, ret, log,
                       bursts, nextCb, removedCbs, clearedCbs, scopes, changed, nested, pre, issued,
                       suppressed>>

\* ------------------------------------------------------------- assignment
\* operator=(const ObservableContainer&): this = c, other = o.
CallCopyAssign(t, c, o) == Call(t, c, "copy_assign", [NoArgs EXCEPT !.other = o])

\* A copy assignment that leaves defer_level_ of the destination as it was.
CopyAssignKeepingDeferral(t) ==
    LET c == this[t]
        o == args[t].other
        data_actually_changed == data_[c] # data_[o]
        evs == IF data_actually_changed THEN <<BatchUpdate>> ELSE <<>>
    IN  /\ pc[t] = "copy_assign"
        /\ IF c = o
           THEN /\ pc' = [pc EXCEPT ![t] = "done"]
                /\ pending' = [pending EXCEPT ![t] = <<>>]
                /\ UNCHANGED <<objectVars, changed, nested, contents, pre, clearedCbs, scopes>>
           ELSE /\ mutex_[c] = NoThread /\ mutex_[o] = NoThread
                /\ mutex_' = [m \in Containers |-> IF m \in {c, o} THEN t ELSE mutex_[m]]
                /\ data_' = [data_ EXCEPT ![c] = IF data_actually_changed THEN data_[o] ELSE @]
                /\ observers_' = [observers_ EXCEPT ![c] = <<>>]
                /\ UNCHANGED defer_level_
                /\ batch_changed_' = [batch_changed_ EXCEPT ![c] = FALSE]
                /\ pending' = [pending EXCEPT ![t] = evs]
                /\ pre' = [pre EXCEPT ![t] = [depth |-> defer_level_[c],
                                              flag |-> batch_changed_[c],
                                              changed |-> changed[c],
                                              data |-> data_[c], obs |-> observers_[c],
                                              events |-> evs]]
                /\ changed' = [changed EXCEPT ![c] = FALSE]
                /\ nested' = [nested EXCEPT ![c] = FALSE]
                /\ contents' = [contents EXCEPT ![c] = contents[o]]
                /\ clearedCbs' = clearedCbs \cup CallbackSet(observers_[c])
                /\ scopes' = scopes
                /\ pc' = [pc EXCEPT ![t] = "unlock"]
                /\ UNCHANGED is_moved_from_
        /\ UNCHANGED <<nextHandleId_, this, args, handle, observers_to_call_functions,
                       should_call_observers, ret, log, bursts, nextCb, removedCbs,
                       issued, suppressed>>

\* A copy assignment that does not clear the registry of the destination.
CopyAssignKeepingObservers(t) ==
    LET c == this[t]
        o == args[t].other
        data_actually_changed == data_[c] # data_[o]
        evs == IF data_actually_changed THEN <<BatchUpdate>> ELSE <<>>
    IN  /\ pc[t] = "copy_assign"
        /\ IF c = o
           THEN /\ pc' = [pc EXCEPT ![t] = "done"]
                /\ pending' = [pending EXCEPT ![t] = <<>>]
                /\ UNCHANGED <<objectVars, changed, nested, contents, pre, clearedCbs, scopes>>
           ELSE /\ mutex_[c] = NoThread /\ mutex_[o] = NoThread
                /\ mutex_' = [m \in Containers |-> IF m \in {c, o} THEN t ELSE mutex_[m]]
                /\ data_' = [data_ EXCEPT ![c] = IF data_actually_changed THEN data_[o] ELSE @]
                /\ UNCHANGED observers_
                /\ defer_level_' = [defer_level_ EXCEPT ![c] = 0]
                /\ batch_changed_' = [batch_changed_ EXCEPT ![c] = FALSE]
                /\ pending' = [pending EXCEPT ![t] = evs]
                /\ pre' = [pre EXCEPT ![t] = [depth |-> defer_level_[c],
                                              flag |-> batch_changed_[c],
                                              changed |-> changed[c],
                                              data |-> data_[c], obs |-> observers_[c],
                                              events |-> evs]]
                /\ changed' = [changed EXCEPT ![c] = FALSE]
                /\ nested' = [nested EXCEPT ![c] = FALSE]
                /\ contents' = [contents EXCEPT ![c] = contents[o]]
                /\ clearedCbs' = clearedCbs
                /\ scopes' = scopes
                /\ pc' = [pc EXCEPT ![t] = "unlock"]
                /\ UNCHANGED is_moved_from_
        /\ UNCHANGED <<nextHandleId_, this, args, handle, observers_to_call_functions,
                       should_call_observers, ret, log, bursts, nextCb, removedCbs,
                       issued, suppressed>>

\* A copy assignment that calls notify(BatchUpdate) whether or not data_ changed.
CopyAssignAlwaysNotifying(t) ==
    LET c == this[t]
        o == args[t].other
        data_actually_changed == data_[c] # data_[o]
        evs == <<BatchUpdate>>
    IN  /\ pc[t] = "copy_assign"
        /\ IF c = o
           THEN /\ pc' = [pc EXCEPT ![t] = "done"]
                /\ pending' = [pending EXCEPT ![t] = <<>>]
                /\ UNCHANGED <<objectVars, changed, nested, contents, pre, clearedCbs, scopes>>
           ELSE /\ mutex_[c] = NoThread /\ mutex_[o] = NoThread
                /\ mutex_' = [m \in Containers |-> IF m \in {c, o} THEN t ELSE mutex_[m]]
                /\ data_' = [data_ EXCEPT ![c] = IF data_actually_changed THEN data_[o] ELSE @]
                /\ observers_' = [observers_ EXCEPT ![c] = <<>>]
                /\ defer_level_' = [defer_level_ EXCEPT ![c] = 0]
                /\ batch_changed_' = [batch_changed_ EXCEPT ![c] = FALSE]
                /\ pending' = [pending EXCEPT ![t] = evs]
                /\ pre' = [pre EXCEPT ![t] = [depth |-> defer_level_[c],
                                              flag |-> batch_changed_[c],
                                              changed |-> changed[c],
                                              data |-> data_[c], obs |-> observers_[c],
                                              events |-> evs]]
                /\ changed' = [changed EXCEPT ![c] = FALSE]
                /\ nested' = [nested EXCEPT ![c] = FALSE]
                /\ contents' = [contents EXCEPT ![c] = contents[o]]
                /\ clearedCbs' = clearedCbs \cup CallbackSet(observers_[c])
                /\ scopes' = scopes
                /\ pc' = [pc EXCEPT ![t] = "unlock"]
                /\ UNCHANGED is_moved_from_
        /\ UNCHANGED <<nextHandleId_, this, args, handle, observers_to_call_functions,
                       should_call_observers, ret, log, bursts, nextCb, removedCbs,
                       issued, suppressed>>

CopyAssign(t) ==
    LET c == this[t]
        o == args[t].other
        data_actually_changed == data_[c] # data_[o]
        evs == IF data_actually_changed THEN <<BatchUpdate>> ELSE <<>>
    IN  /\ pc[t] = "copy_assign"
        /\ IF c = o
           THEN /\ pc' = [pc EXCEPT ![t] = "done"]
                /\ pending' = [pending EXCEPT ![t] = <<>>]
                /\ UNCHANGED <<objectVars, changed, nested, contents, pre, clearedCbs, scopes>>
           ELSE /\ mutex_[c] = NoThread /\ mutex_[o] = NoThread
                /\ mutex_' = [m \in Containers |-> IF m \in {c, o} THEN t ELSE mutex_[m]]
                /\ data_' = [data_ EXCEPT ![c] = IF data_actually_changed THEN data_[o] ELSE @]
                /\ observers_' = [observers_ EXCEPT ![c] = <<>>]
                /\ defer_level_' = [defer_level_ EXCEPT ![c] = 0]
                /\ batch_changed_' = [batch_changed_ EXCEPT ![c] = FALSE]
                /\ pending' = [pending EXCEPT ![t] = evs]
                /\ pre' = [pre EXCEPT ![t] = [depth |-> defer_level_[c],
                                              flag |-> batch_changed_[c],
                                              changed |-> changed[c],
                                              data |-> data_[c], obs |-> observers_[c],
                                              events |-> evs]]
                /\ changed' = [changed EXCEPT ![c] = FALSE]
                /\ nested' = [nested EXCEPT ![c] = FALSE]
                /\ contents' = [contents EXCEPT ![c] = contents[o]]
                /\ clearedCbs' = clearedCbs \cup CallbackSet(observers_[c])
                /\ scopes' = scopes
                /\ pc' = [pc EXCEPT ![t] = "unlock"]
                /\ UNCHANGED is_moved_from_
        /\ UNCHANGED <<nextHandleId_, this, args, handle, observers_to_call_functions,
                       should_call_observers, ret, log, bursts, nextCb, removedCbs,
                       issued, suppressed>>

\* operator=(ObservableContainer&&): this = c, other = o.
CallMoveAssign(t, c, o) == Call(t, c, "move_assign", [NoArgs EXCEPT !.other = o])

\* A move assignment whose self test comes after other.observers_.clear().
MoveAssignSelfClearing(t) ==
    LET c == this[t]
        o == args[t].other
        Moved(f, empty) == [f EXCEPT ![c] = f[o], ![o] = empty]
    IN  /\ pc[t] = "move_assign"
        /\ IF c = o
           THEN /\ pc' = [pc EXCEPT ![t] = "done"]
                /\ pending' = [pending EXCEPT ![t] = <<>>]
                /\ observers_' = [observers_ EXCEPT ![o] = <<>>]
                /\ UNCHANGED <<data_, defer_level_, batch_changed_, mutex_, is_moved_from_,
                               changed, nested, contents, pre, clearedCbs, scopes>>
           ELSE /\ mutex_[c] = NoThread /\ mutex_[o] = NoThread
                /\ mutex_' = [m \in Containers |-> IF m \in {c, o} THEN t ELSE mutex_[m]]
                /\ data_' = Moved(data_, <<>>)
                /\ observers_' = [observers_ EXCEPT ![o] = <<>>]
                /\ defer_level_' = Moved(defer_level_, 0)
                /\ batch_changed_' = Moved(batch_changed_, FALSE)
                /\ is_moved_from_' = [is_moved_from_ EXCEPT ![o] = TRUE]
                /\ pending' = [pending EXCEPT ![t] = <<BatchUpdate>>]
                /\ pre' = [pre EXCEPT ![t] = [depth |-> defer_level_[c],
                                              flag |-> batch_changed_[c],
                                              changed |-> changed[c],
                                              data |-> data_[c], obs |-> observers_[c],
                                              events |-> <<BatchUpdate>>]]
                /\ changed' = Moved(changed, FALSE)
                /\ nested' = Moved(nested, FALSE)
                /\ contents' = Moved(contents, <<>>)
                /\ clearedCbs' = clearedCbs \cup CallbackSet(observers_[o])
                /\ scopes' = scopes
                /\ pc' = [pc EXCEPT ![t] = "unlock"]
        /\ UNCHANGED <<nextHandleId_, this, args, handle, observers_to_call_functions,
                       should_call_observers, ret, log, bursts, nextCb, removedCbs,
                       issued, suppressed>>

\* A move assignment that does not call notify.
MoveAssignWithoutNotify(t) ==
    LET c == this[t]
        o == args[t].other
        Moved(f, empty) == [f EXCEPT ![c] = f[o], ![o] = empty]
    IN  /\ pc[t] = "move_assign"
        /\ IF c = o
           THEN /\ pc' = [pc EXCEPT ![t] = "done"]
                /\ pending' = [pending EXCEPT ![t] = <<>>]
                /\ UNCHANGED <<objectVars, changed, nested, contents, pre, clearedCbs, scopes>>
           ELSE /\ mutex_[c] = NoThread /\ mutex_[o] = NoThread
                /\ mutex_' = [m \in Containers |-> IF m \in {c, o} THEN t ELSE mutex_[m]]
                /\ data_' = Moved(data_, <<>>)
                /\ observers_' = [observers_ EXCEPT ![o] = <<>>]
                /\ defer_level_' = Moved(defer_level_, 0)
                /\ batch_changed_' = Moved(batch_changed_, FALSE)
                /\ is_moved_from_' = [is_moved_from_ EXCEPT ![o] = TRUE]
                /\ pending' = [pending EXCEPT ![t] = <<>>]
                /\ pre' = [pre EXCEPT ![t] = [depth |-> defer_level_[c],
                                              flag |-> batch_changed_[c],
                                              changed |-> changed[c],
                                              data |-> data_[c], obs |-> observers_[c],
                                              events |-> <<BatchUpdate>>]]
                /\ changed' = Moved(changed, FALSE)
                /\ nested' = Moved(nested, FALSE)
                /\ contents' = Moved(contents, <<>>)
                /\ clearedCbs' = clearedCbs \cup CallbackSet(observers_[o])
                /\ scopes' = scopes
                /\ pc' = [pc EXCEPT ![t] = "unlock"]
        /\ UNCHANGED <<nextHandleId_, this, args, handle, observers_to_call_functions,
                       should_call_observers, ret, log, bursts, nextCb, removedCbs,
                       issued, suppressed>>

\* A move assignment that resets the deferral state of the destination.
MoveAssignResettingDeferral(t) ==
    LET c == this[t]
        o == args[t].other
        Moved(f, empty) == [f EXCEPT ![c] = f[o], ![o] = empty]
    IN  /\ pc[t] = "move_assign"
        /\ IF c = o
           THEN /\ pc' = [pc EXCEPT ![t] = "done"]
                /\ pending' = [pending EXCEPT ![t] = <<>>]
                /\ UNCHANGED <<objectVars, changed, nested, contents, pre, clearedCbs, scopes>>
           ELSE /\ mutex_[c] = NoThread /\ mutex_[o] = NoThread
                /\ mutex_' = [m \in Containers |-> IF m \in {c, o} THEN t ELSE mutex_[m]]
                /\ data_' = Moved(data_, <<>>)
                /\ observers_' = [observers_ EXCEPT ![o] = <<>>]
                /\ defer_level_' = [defer_level_ EXCEPT ![c] = 0, ![o] = 0]
                /\ batch_changed_' = [batch_changed_ EXCEPT ![c] = FALSE, ![o] = FALSE]
                /\ is_moved_from_' = [is_moved_from_ EXCEPT ![o] = TRUE]
                /\ pending' = [pending EXCEPT ![t] = <<BatchUpdate>>]
                /\ pre' = [pre EXCEPT ![t] = [depth |-> defer_level_[c],
                                              flag |-> batch_changed_[c],
                                              changed |-> changed[c],
                                              data |-> data_[c], obs |-> observers_[c],
                                              events |-> <<BatchUpdate>>]]
                /\ changed' = Moved(changed, FALSE)
                /\ nested' = Moved(nested, FALSE)
                /\ contents' = Moved(contents, <<>>)
                /\ clearedCbs' = clearedCbs \cup CallbackSet(observers_[o])
                /\ scopes' = scopes
                /\ pc' = [pc EXCEPT ![t] = "unlock"]
        /\ UNCHANGED <<nextHandleId_, this, args, handle, observers_to_call_functions,
                       should_call_observers, ret, log, bursts, nextCb, removedCbs,
                       issued, suppressed>>

MoveAssign(t) ==
    LET c == this[t]
        o == args[t].other
        Moved(f, empty) == [f EXCEPT ![c] = f[o], ![o] = empty]
    IN  /\ pc[t] = "move_assign"
        /\ IF c = o
           THEN /\ pc' = [pc EXCEPT ![t] = "done"]
                /\ pending' = [pending EXCEPT ![t] = <<>>]
                /\ UNCHANGED <<objectVars, changed, nested, contents, pre, clearedCbs, scopes>>
           ELSE /\ mutex_[c] = NoThread /\ mutex_[o] = NoThread
                /\ mutex_' = [m \in Containers |-> IF m \in {c, o} THEN t ELSE mutex_[m]]
                /\ data_' = Moved(data_, <<>>)
                /\ observers_' = [observers_ EXCEPT ![o] = <<>>]
                /\ defer_level_' = Moved(defer_level_, 0)
                /\ batch_changed_' = Moved(batch_changed_, FALSE)
                /\ is_moved_from_' = [is_moved_from_ EXCEPT ![o] = TRUE]
                /\ pending' = [pending EXCEPT ![t] = <<BatchUpdate>>]
                /\ pre' = [pre EXCEPT ![t] = [depth |-> defer_level_[c],
                                              flag |-> batch_changed_[c],
                                              changed |-> changed[c],
                                              data |-> data_[c], obs |-> observers_[c],
                                              events |-> <<BatchUpdate>>]]
                /\ changed' = Moved(changed, FALSE)
                /\ nested' = Moved(nested, FALSE)
                /\ contents' = Moved(contents, <<>>)
                /\ clearedCbs' = clearedCbs \cup CallbackSet(observers_[o])
                /\ scopes' = scopes
                /\ pc' = [pc EXCEPT ![t] = "unlock"]
        /\ UNCHANGED <<nextHandleId_, this, args, handle, observers_to_call_functions,
                       should_call_observers, ret, log, bursts, nextCb, removedCbs,
                       issued, suppressed>>

\* ------------------------------------------------------------ construction
\* A new ObservableContainer is constructed in the storage of container c,
\* whose former object has been destroyed, from container o.  A constructor
\* locks other.mutex_ only; pre[t] records the state of `other` before it.
CallCopyConstruct(t, c, o) ==
    /\ c # o
    /\ Call(t, c, "copy_construct", [NoArgs EXCEPT !.other = o])

\* A copy constructor that copies the deferral state with the elements.
CopyConstructCopyingDeferral(t) ==
    LET c == this[t]
        o == args[t].other
    IN  /\ pc[t] = "copy_construct"
        /\ mutex_[o] = NoThread
        /\ mutex_' = [mutex_ EXCEPT ![o] = t, ![c] = NoThread]
        /\ data_' = [data_ EXCEPT ![c] = data_[o]]
        /\ observers_' = [observers_ EXCEPT ![c] = <<>>]
        /\ defer_level_' = [defer_level_ EXCEPT ![c] = defer_level_[o]]
        /\ batch_changed_' = [batch_changed_ EXCEPT ![c] = batch_changed_[o]]
        /\ is_moved_from_' = [is_moved_from_ EXCEPT ![c] = FALSE]
        /\ pending' = [pending EXCEPT ![t] = <<>>]
        /\ pre' = [pre EXCEPT ![t] = [depth |-> defer_level_[o],
                                      flag |-> batch_changed_[o],
                                      changed |-> changed[o],
                                      data |-> data_[o], obs |-> observers_[o],
                                      events |-> <<>>]]
        /\ changed' = [changed EXCEPT ![c] = FALSE]
        /\ nested' = [nested EXCEPT ![c] = FALSE]
        /\ contents' = [contents EXCEPT ![c] = contents[o]]
        /\ pc' = [pc EXCEPT ![t] = "unlock"]
        /\ UNCHANGED <<nextHandleId_, this, args, handle, observers_to_call_functions,
                       should_call_observers, ret, log, bursts, nextCb, removedCbs,
                       clearedCbs, scopes, issued, suppressed>>

\* ObservableContainer(const ObservableContainer&), lines 141-148.
CopyConstruct(t) ==
    LET c == this[t]
        o == args[t].other
    IN  /\ pc[t] = "copy_construct"
        /\ mutex_[o] = NoThread
        /\ mutex_' = [mutex_ EXCEPT ![o] = t, ![c] = NoThread]
        /\ data_' = [data_ EXCEPT ![c] = data_[o]]
        /\ observers_' = [observers_ EXCEPT ![c] = <<>>]
        /\ defer_level_' = [defer_level_ EXCEPT ![c] = 0]
        /\ batch_changed_' = [batch_changed_ EXCEPT ![c] = FALSE]
        /\ is_moved_from_' = [is_moved_from_ EXCEPT ![c] = FALSE]
        /\ pending' = [pending EXCEPT ![t] = <<>>]
        /\ pre' = [pre EXCEPT ![t] = [depth |-> defer_level_[o],
                                      flag |-> batch_changed_[o],
                                      changed |-> changed[o],
                                      data |-> data_[o], obs |-> observers_[o],
                                      events |-> <<>>]]
        /\ changed' = [changed EXCEPT ![c] = FALSE]
        /\ nested' = [nested EXCEPT ![c] = FALSE]
        /\ contents' = [contents EXCEPT ![c] = contents[o]]
        /\ pc' = [pc EXCEPT ![t] = "unlock"]
        /\ UNCHANGED <<nextHandleId_, this, args, handle, observers_to_call_functions,
                       should_call_observers, ret, log, bursts, nextCb, removedCbs,
                       clearedCbs, scopes, issued, suppressed>>

CallMoveConstruct(t, c, o) ==
    /\ c # o
    /\ Call(t, c, "move_construct", [NoArgs EXCEPT !.other = o])

\* A move constructor that copies the elements and leaves them in `other`.
MoveConstructKeepingSource(t) ==
    LET c == this[t]
        o == args[t].other
        Moved(f, empty) == [f EXCEPT ![c] = f[o], ![o] = empty]
    IN  /\ pc[t] = "move_construct"
        /\ mutex_[o] = NoThread
        /\ mutex_' = [mutex_ EXCEPT ![o] = t, ![c] = NoThread]
        /\ data_' = [data_ EXCEPT ![c] = data_[o]]
        /\ observers_' = [observers_ EXCEPT ![c] = <<>>, ![o] = <<>>]
        /\ defer_level_' = Moved(defer_level_, 0)
        /\ batch_changed_' = Moved(batch_changed_, FALSE)
        /\ is_moved_from_' = [is_moved_from_ EXCEPT ![c] = FALSE, ![o] = TRUE]
        /\ pending' = [pending EXCEPT ![t] = <<>>]
        /\ pre' = [pre EXCEPT ![t] = [depth |-> defer_level_[o],
                                      flag |-> batch_changed_[o],
                                      changed |-> changed[o],
                                      data |-> data_[o], obs |-> observers_[o],
                                      events |-> <<>>]]
        /\ changed' = Moved(changed, FALSE)
        /\ nested' = Moved(nested, FALSE)
        /\ contents' = Moved(contents, <<>>)
        /\ clearedCbs' = clearedCbs \cup CallbackSet(observers_[o])
        /\ scopes' = scopes
        /\ pc' = [pc EXCEPT ![t] = "unlock"]
        /\ UNCHANGED <<nextHandleId_, this, args, handle, observers_to_call_functions,
                       should_call_observers, ret, log, bursts, nextCb, removedCbs,
                       issued, suppressed>>

\* A move constructor that leaves the registry of `other` and its
\* is_moved_from_ flag as they were.
MoveConstructLeavingRegistry(t) ==
    LET c == this[t]
        o == args[t].other
        Moved(f, empty) == [f EXCEPT ![c] = f[o], ![o] = empty]
    IN  /\ pc[t] = "move_construct"
        /\ mutex_[o] = NoThread
        /\ mutex_' = [mutex_ EXCEPT ![o] = t, ![c] = NoThread]
        /\ data_' = Moved(data_, <<>>)
        /\ observers_' = [observers_ EXCEPT ![c] = <<>>]
        /\ defer_level_' = Moved(defer_level_, 0)
        /\ batch_changed_' = Moved(batch_changed_, FALSE)
        /\ is_moved_from_' = [is_moved_from_ EXCEPT ![c] = FALSE]
        /\ pending' = [pending EXCEPT ![t] = <<>>]
        /\ pre' = [pre EXCEPT ![t] = [depth |-> defer_level_[o],
                                      flag |-> batch_changed_[o],
                                      changed |-> changed[o],
                                      data |-> data_[o], obs |-> observers_[o],
                                      events |-> <<>>]]
        /\ changed' = Moved(changed, FALSE)
        /\ nested' = Moved(nested, FALSE)
        /\ contents' = Moved(contents, <<>>)
        /\ clearedCbs' = clearedCbs \cup CallbackSet(observers_[o])
        /\ scopes' = scopes
        /\ pc' = [pc EXCEPT ![t] = "unlock"]
        /\ UNCHANGED <<nextHandleId_, this, args, handle, observers_to_call_functions,
                       should_call_observers, ret, log, bursts, nextCb, removedCbs,
                       issued, suppressed>>

\* ObservableContainer(ObservableContainer&&), lines 174-186.
MoveConstruct(t) ==
    LET c == this[t]
        o == args[t].other
        Moved(f, empty) == [f EXCEPT ![c] = f[o], ![o] = empty]
    IN  /\ pc[t] = "move_construct"
        /\ mutex_[o] = NoThread
        /\ mutex_' = [mutex_ EXCEPT ![o] = t, ![c] = NoThread]
        /\ data_' = Moved(data_, <<>>)
        /\ observers_' = [observers_ EXCEPT ![c] = <<>>, ![o] = <<>>]
        /\ defer_level_' = Moved(defer_level_, 0)
        /\ batch_changed_' = Moved(batch_changed_, FALSE)
        /\ is_moved_from_' = [is_moved_from_ EXCEPT ![c] = FALSE, ![o] = TRUE]
        /\ pending' = [pending EXCEPT ![t] = <<>>]
        /\ pre' = [pre EXCEPT ![t] = [depth |-> defer_level_[o],
                                      flag |-> batch_changed_[o],
                                      changed |-> changed[o],
                                      data |-> data_[o], obs |-> observers_[o],
                                      events |-> <<>>]]
        /\ changed' = Moved(changed, FALSE)
        /\ nested' = Moved(nested, FALSE)
        /\ contents' = Moved(contents, <<>>)
        /\ clearedCbs' = clearedCbs \cup CallbackSet(observers_[o])
        /\ scopes' = scopes
        /\ pc' = [pc EXCEPT ![t] = "unlock"]
        /\ UNCHANGED <<nextHandleId_, this, args, handle, observers_to_call_functions,
                       should_call_observers, ret, log, bursts, nextCb, removedCbs,
                       issued, suppressed>>

\* --------------------------------------------------------- ScopedModifier
\* The ScopedModifier objects of thread t that have not been destroyed.  The
\* record of the scope destroyed last is kept, marked, until the next
\* ScopedModifier is constructed or destroyed; `entered` records
\* defer_level_ of the container before the constructor ran.
LiveScopes(t) == SelectSeq(scopes[t], LAMBDA s : ~s.destroyed)

\* A constructor that stores the reference but does not call beginUpdate().
ConstructScopedModifierWithoutBegin(t, c) ==
    /\ defer_level_[c] + Entering(c, {"beginUpdate"}) < MaxDepth
    /\ Enter(t, c, "done", NoArgs)
    /\ scopes' = [scopes EXCEPT ![t] =
                      Append(LiveScopes(t), [container_ref_ |-> c,
                                             entered |-> defer_level_[c],
                                             destroyed |-> FALSE])]

\* explicit ScopedModifier(ObservableContainer<T>& container): stores the
\* reference and calls container_ref_.beginUpdate().
ConstructScopedModifier(t, c) ==
    /\ defer_level_[c] + Entering(c, {"beginUpdate"}) < MaxDepth
    /\ Enter(t, c, "beginUpdate", NoArgs)
    /\ scopes' = [scopes EXCEPT ![t] =
                      Append(LiveScopes(t), [container_ref_ |-> c,
                                             entered |-> defer_level_[c],
                                             destroyed |-> FALSE])]

\* ~ScopedModifier() of the innermost scope, reached by the closing brace, by
\* a return or by an exception that unwinds the scope: calls
\* container_ref_.endUpdate().
DestroyScopedModifier(t) ==
    LET live == LiveScopes(t)
    IN  /\ live # <<>>
        /\ Enter(t, live[Len(live)].container_ref_, "endUpdate", NoArgs)
        /\ scopes' = [scopes EXCEPT ![t] = [live EXCEPT ![Len(live)].destroyed = TRUE]]

\* ----------------------------------------------------------------- steps
\* The steps a thread takes inside notify() once a method has called it.
NotifyStep(t) == NotifyEnter(t) \/ NotifyLock(t) \/ NotifyUnlock(t) \/ Invoke(t)

\* Thread t makes its calls on container c one at a time (observers are
\* registered on and removed from either container): every method of the
\* notification engine.
Caller(t, c) ==
    \/ CallBeginUpdate(t, c)
    \/ CallEndUpdate(t, c)
    \/ \E o \in Containers : CallAddObserver(t, o)
    \/ \E o \in Containers, h \in 0..MaxObservers : CallRemoveObserver(t, o, h)
    \/ \E v \in Values : CallPushBack(t, c, v)
    \/ CallPopBack(t, c)
    \/ CallClear(t, c)
    \/ \E i \in 0..MaxLen, v \in Values : CallInsert(t, c, i, v)
    \/ \E i \in 0..MaxLen : CallErase(t, c, i)
    \/ \E i \in 0..MaxLen, v \in Values : CallModify(t, c, i, v)
    \/ \E i \in 0..MaxLen, v \in Values : CallModifyRvalue(t, c, i, v)
    \/ \E i \in 0..MaxLen, v \in Values \cup {nullopt} : CallAt(t, c, i, v)
    \/ BeginUpdate(t)
    \/ EndUpdate(t)
    \/ AddObserverLoad(t)
    \/ AddObserverStore(t)
    \/ RemoveObserver(t)
    \/ PushBack(t)
    \/ PopBack_(t)
    \/ Clear(t)
    \/ Insert(t)
    \/ Erase(t)
    \/ Modify(t)
    \/ ModifyRvalue(t)
    \/ At(t)
    \/ AtUnlock(t)
    \/ UseReference(t)
    \/ Unlock(t)
    \/ NotifyStep(t)
    \/ Return(t)

\* One caller, one container.
NextSeq == Caller(1, 1)

SpecSeq == Init /\ [][NextSeq]_vars


\* Several threads share container 1 and call its methods at will; observers
\* are registered on and removed from either container.  Iterators cannot be
\* handed safely from one thread's view of the sequence to the critical
\* section of insert or erase, so these two are left to the one-caller runs,
\* as is the rvalue overload of modify, whose steps are those of the lvalue one.
\*
\* A run starts from a state the one-caller runs reach with no call in
\* progress (k observers registered in order, a batch open d deep with or
\* without a recorded change, any elements) and follows one burst of calls
\* that overlap in time.
RECURSIVE Registered(_)
Registered(k) == IF k = 0 THEN <<>> ELSE Append(Registered(k - 1), <<k, k>>)

RECURSIVE SeqsUpTo(_)
SeqsUpTo(n) ==
    IF n = 0 THEN {<<>>}
    ELSE LET S == SeqsUpTo(n - 1) IN S \cup {Append(s, v) : s \in S, v \in Values}

InitShared ==
    \E k \in 0..MaxObservers, d \in 0..MaxDepth, f \in BOOLEAN, s \in SeqsUpTo(MaxLen - 1) :
        /\ f => d > 0
        /\ data_ = [c \in Containers |-> IF c = 1 THEN s ELSE <<>>]
        /\ observers_ = [c \in Containers |-> IF c = 1 THEN Registered(k) ELSE <<>>]
        /\ defer_level_ = [c \in Containers |-> IF c = 1 THEN d ELSE 0]
        /\ batch_changed_ = [c \in Containers |-> c = 1 /\ f]
        /\ mutex_ = [c \in Containers |-> NoThread]
        /\ is_moved_from_ = [c \in Containers |-> FALSE]
        /\ nextHandleId_ = k
        /\ pc = [t \in Threads |-> "idle"]
        /\ this = [t \in Threads |-> 1]
        /\ args = [t \in Threads |-> NoArgs]
        /\ handle = [t \in Threads |-> 0]
        /\ pending = [t \in Threads |-> <<>>]
        /\ observers_to_call_functions = [t \in Threads |-> <<>>]
        /\ should_call_observers = [t \in Threads |-> FALSE]
        /\ ret = [t \in Threads |-> NoRet]
        /\ log = <<>>
        /\ bursts = 0
        /\ nextCb = k
        /\ removedCbs = {}
        /\ clearedCbs = {}
        /\ scopes = [t \in Threads |-> <<>>]
        /\ changed = [c \in Containers |-> c = 1 /\ f]
        /\ nested = [c \in Containers |-> c = 1 /\ d > 1]
        /\ contents = [c \in Containers |-> IF c = 1 THEN s ELSE <<>>]
        /\ pre = [t \in Threads |-> NoPre]
        /\ issued = 1..k
        /\ suppressed = {}

Step(t) ==
    \/ BeginUpdate(t)
    \/ EndUpdate(t)
    \/ AddObserverLoad(t)
    \/ AddObserverStore(t)
    \/ RemoveObserver(t)
    \/ PushBack(t)
    \/ PopBack_(t)
    \/ Clear(t)
    \/ Modify(t)
    \/ Unlock(t)
    \/ NotifyStep(t)
    \/ Return(t)

\* The burst has not ended: no call was made yet, or one is still in progress.
InBurst == bursts = 0 \/ ~Resting

Next ==
    \E t \in Threads :
        \/ InBurst /\ CallBeginUpdate(t, 1)
        \/ InBurst /\ CallEndUpdate(t, 1)
        \/ InBurst /\ \E c \in Containers : CallAddObserver(t, c)
        \/ InBurst /\ \E c \in Containers, h \in 0..MaxObservers :
                         CallRemoveObserver(t, c, h)
        \/ InBurst /\ \E v \in Values : CallPushBack(t, 1, v)
        \/ InBurst /\ CallPopBack(t, 1)
        \/ InBurst /\ CallClear(t, 1)
        \/ InBurst /\ \E i \in 0..(MaxLen - 1), v \in Values : CallModify(t, 1, i, v)
        \/ Step(t)

Spec == InitShared /\ [][Next]_vars

\* ------------------------------------------------- one caller, with assignment
\* Container 1 is also the destination of copy and move assignments from
\* container 2 (or from itself); container 2 was filled before the run and
\* may have been left with a batch open, with or without a recorded change.
InitAssign ==
    \E s \in SeqsUpTo(1), d \in BOOLEAN, f \in BOOLEAN :
        /\ f => d
        /\ data_ = [c \in Containers |-> IF c = 2 THEN s ELSE <<>>]
        /\ observers_ = [c \in Containers |-> <<>>]
        /\ defer_level_ = [c \in Containers |-> IF c = 2 /\ d THEN 1 ELSE 0]
        /\ batch_changed_ = [c \in Containers |-> c = 2 /\ f]
        /\ mutex_ = [c \in Containers |-> NoThread]
        /\ is_moved_from_ = [c \in Containers |-> FALSE]
        /\ nextHandleId_ = 0
        /\ pc = [t \in Threads |-> "idle"]
        /\ this = [t \in Threads |-> 1]
        /\ args = [t \in Threads |-> NoArgs]
        /\ handle = [t \in Threads |-> 0]
        /\ pending = [t \in Threads |-> <<>>]
        /\ observers_to_call_functions = [t \in Threads |-> <<>>]
        /\ should_call_observers = [t \in Threads |-> FALSE]
        /\ ret = [t \in Threads |-> NoRet]
        /\ log = <<>>
        /\ bursts = 0
        /\ nextCb = 0
        /\ removedCbs = {}
        /\ clearedCbs = {}
        /\ scopes = [t \in Threads |-> <<>>]
        /\ changed = [c \in Containers |-> c = 2 /\ f]
        /\ nested = [c \in Containers |-> FALSE]
        /\ contents = [c \in Containers |-> IF c = 2 THEN s ELSE <<>>]
        /\ pre = [t \in Threads |-> NoPre]
        /\ issued = {}
        /\ suppressed = {}

Assigner(t, c) ==
    \/ CallBeginUpdate(t, c)
    \/ CallEndUpdate(t, c)
    \/ \E o \in Containers : CallAddObserver(t, o)
    \/ \E o \in Containers, h \in 0..MaxObservers : CallRemoveObserver(t, o, h)
    \/ \E v \in Values : CallPushBack(t, c, v)
    \/ CallPopBack(t, c)
    \/ \E o \in Containers : CallCopyAssign(t, c, o)
    \/ \E o \in Containers : CallMoveAssign(t, c, o)
    \/ BeginUpdate(t)
    \/ EndUpdate(t)
    \/ AddObserverLoad(t)
    \/ AddObserverStore(t)
    \/ RemoveObserver(t)
    \/ PushBack(t)
    \/ PopBack_(t)
    \/ CopyAssign(t)
    \/ MoveAssign(t)
    \/ Unlock(t)
    \/ NotifyStep(t)
    \/ Return(t)

NextAssign == Assigner(1, 1)

SpecAssign == InitAssign /\ [][NextAssign]_vars

\* ------------------------------------------------------ concurrent appends
\* Every thread has called push_back(v[t]) on container 1, which holds s, has
\* k observers and no open batch; container 2 is a copy made just before.
InitAppend ==
    \E k \in 0..MaxObservers, s \in SeqsUpTo(MaxLen), v \in [Threads -> Values] :
        /\ data_ = [c \in Containers |-> s]
        /\ observers_ = [c \in Containers |-> IF c = 1 THEN Registered(k) ELSE <<>>]
        /\ defer_level_ = [c \in Containers |-> 0]
        /\ batch_changed_ = [c \in Containers |-> FALSE]
        /\ mutex_ = [c \in Containers |-> NoThread]
        /\ is_moved_from_ = [c \in Containers |-> FALSE]
        /\ nextHandleId_ = k
        /\ pc = [t \in Threads |-> "push_back"]
        /\ this = [t \in Threads |-> 1]
        /\ args = [t \in Threads |-> [NoArgs EXCEPT !.op = "push_back", !.v = v[t]]]
        /\ handle = [t \in Threads |-> 0]
        /\ pending = [t \in Threads |-> <<>>]
        /\ observers_to_call_functions = [t \in Threads |-> <<>>]
        /\ should_call_observers = [t \in Threads |-> FALSE]
        /\ ret = [t \in Threads |-> NoRet]
        /\ log = <<>>
        /\ bursts = Cardinality(Threads)
        /\ nextCb = k
        /\ removedCbs = {}
        /\ clearedCbs = {}
        /\ scopes = [t \in Threads |-> <<>>]
        /\ changed = [c \in Containers |-> FALSE]
        /\ nested = [c \in Containers |-> FALSE]
        /\ contents = [c \in Containers |-> s]
        /\ pre = [t \in Threads |-> NoPre]
        /\ issued = 1..k
        /\ suppressed = {}

NextAppend == \E t \in Threads : PushBack(t) \/ Unlock(t) \/ NotifyStep(t)

SpecAppend == InitAppend /\ [][NextAppend]_vars

\* ------------------------------------------------------ re-entrant callbacks
\* One thread, two frames.  Frame 1 is a call made from outside; while it is
\* inside a callback (pc "dispatch") the callback may call a method of the
\* same container, which runs in frame 2 to its return before frame 1 goes
\* on.  mutex_ names the frame whose guard holds it: std::mutex is not
\* recursive, so frame 2 cannot take a mutex that frame 1 holds.
Methods(t) ==
    \/ CallBeginUpdate(t, 1)
    \/ CallEndUpdate(t, 1)
    \/ CallAddObserver(t, 1)
    \/ \E h \in 0..MaxObservers : CallRemoveObserver(t, 1, h)
    \/ \E v \in Values : CallPushBack(t, 1, v)
    \/ CallPopBack(t, 1)

Body(t) ==
    \/ BeginUpdate(t)
    \/ EndUpdate(t)
    \/ AddObserverLoad(t)
    \/ AddObserverStore(t)
    \/ RemoveObserver(t)
    \/ PushBack(t)
    \/ PopBack_(t)
    \/ Unlock(t)
    \/ NotifyStep(t)
    \/ Return(t)

NextReentrant ==
    \/ pc[2] = "idle" /\ (Methods(1) \/ Body(1))
    \/ pc[1] = "dispatch" /\ Methods(2)
    \/ Body(2)

SpecReentrant == Init /\ [][NextReentrant]_vars

\* One caller registers up to MaxRegistered observers on container 1, removes
\* observers by handle, and appends and removes elements outside any batch.
Registrar(t) ==
    \/ /\ nextCb < MaxRegistered
       /\ Call(t, 1, "addObserver", [NoArgs EXCEPT !.cb = nextCb + 1])
    \/ \E h \in 0..MaxRegistered : CallRemoveObserver(t, 1, h)
    \/ \E v \in Values : CallPushBack(t, 1, v)
    \/ CallPopBack(t, 1)
    \/ AddObserverLoad(t)
    \/ AddObserverStore(t)
    \/ RemoveObserver(t)
    \/ PushBack(t)
    \/ PopBack_(t)
    \/ Unlock(t)
    \/ NotifyStep(t)
    \/ Return(t)

NextRegistry == Registrar(1)

SpecRegistry == Init /\ [][NextRegistry]_vars


\* One caller constructs container 2 from container 1, by copy and by move,
\* and between constructions registers observers, opens and closes batches
\* and appends elements on either container (the k-th element appended to a
\* container is the value k, so that the order of the elements is visible).
Constructor(t) ==
    \/ \E c \in Containers : CallBeginUpdate(t, c)
    \/ \E c \in Containers : CallEndUpdate(t, c)
    \/ \E c \in Containers : CallAddObserver(t, c)
    \/ \E c \in Containers : CallPushBack(t, c, Len(data_[c]) + 1)
    \/ CallCopyConstruct(t, 2, 1)
    \/ CallMoveConstruct(t, 2, 1)
    \/ BeginUpdate(t)
    \/ EndUpdate(t)
    \/ AddObserverLoad(t)
    \/ AddObserverStore(t)
    \/ PushBack(t)
    \/ CopyConstruct(t)
    \/ MoveConstruct(t)
    \/ Unlock(t)
    \/ NotifyStep(t)
    \/ Return(t)

NextConstruct == Constructor(1)

SpecConstruct == Init /\ [][NextConstruct]_vars


\* One caller moves the elements between the two containers, by move
\* assignment in either direction and by constructing container 2 from
\* container 1, and between moves registers observers, opens and closes
\* batches and appends elements on either container (the k-th element
\* appended is the value k).
Mover(t) ==
    \/ \E c \in Containers : CallBeginUpdate(t, c)
    \/ \E c \in Containers : CallEndUpdate(t, c)
    \/ \E c \in Containers : CallAddObserver(t, c)
    \/ \E c \in Containers : CallPushBack(t, c, Len(data_[c]) + 1)
    \/ \E c, o \in Containers : c # o /\ CallMoveAssign(t, c, o)
    \/ CallMoveConstruct(t, 2, 1)
    \/ BeginUpdate(t)
    \/ EndUpdate(t)
    \/ AddObserverLoad(t)
    \/ AddObserverStore(t)
    \/ PushBack(t)
    \/ MoveAssign(t)
    \/ MoveConstruct(t)
    \/ Unlock(t)
    \/ NotifyStep(t)
    \/ Return(t)

NextMove == Mover(1)

SpecMove == Init /\ [][NextMove]_vars


\* One caller batches its mutations of container 1 with ScopedModifier
\* objects, nested up to MaxDepth, and calls beginUpdate and endUpdate in no
\* other way; a scope is left at any point between two calls, also right
\* after a call that threw (at() with an index out of range).
ScopedCaller(t, c) ==
    \/ ConstructScopedModifier(t, c)
    \/ DestroyScopedModifier(t)
    \/ CallAddObserver(t, c)
    \/ \E v \in Values : CallPushBack(t, c, v)
    \/ CallPopBack(t, c)
    \/ \E i \in 0..MaxLen, v \in Values : CallModify(t, c, i, v)
    \/ \E i \in 0..MaxLen : CallAt(t, c, i, nullopt)
    \/ BeginUpdate(t)
    \/ EndUpdate(t)
    \/ AddObserverLoad(t)
    \/ AddObserverStore(t)
    \/ PushBack(t)
    \/ PopBack_(t)
    \/ Modify(t)
    \/ At(t)
    \/ AtUnlock(t)
    \/ UseReference(t)
    \/ Unlock(t)
    \/ NotifyStep(t)
    \/ Return(t)

NextScoped == ScopedCaller(1, 1)

SpecScoped == Init /\ [][NextScoped]_vars


\* One caller of container 1 whose callbacks may throw at any invocation.
Thrower(t, c) ==
    \/ CallBeginUpdate(t, c)
    \/ CallEndUpdate(t, c)
    \/ CallAddObserver(t, c)
    \/ \E v \in Values : CallPushBack(t, c, v)
    \/ CallPopBack(t, c)
    \/ CallClear(t, c)
    \/ \E i \in 0..MaxLen, v \in Values : CallModify(t, c, i, v)
    \/ BeginUpdate(t)
    \/ EndUpdate(t)
    \/ AddObserverLoad(t)
    \/ AddObserverStore(t)
    \/ PushBack(t)
    \/ PopBack_(t)
    \/ Clear(t)
    \/ Modify(t)
    \/ Unlock(t)
    \/ NotifyStep(t)
    \/ InvokeThrows(t)
    \/ Return(t)

NextThrow == Thrower(1, 1)

SpecThrow == Init /\ [][NextThrow]_vars


\* ------------------------------------------------ threads that keep calling
\* Two threads call beginUpdate, endUpdate, push_back, pop_back and clear on
\* the shared container 1 (every element appended is the value 1) without end, in bursts of at most MaxBurst overlapping
\* calls.  A thread that is inside a method goes on: it is scheduled, and it
\* gets the mutex it waits for when the mutex is released again and again.
LiveStep(t) ==
    \/ BeginUpdate(t)
    \/ EndUpdate(t)
    \/ PushBack(t)
    \/ PopBack_(t)
    \/ Clear(t)
    \/ Unlock(t)
    \/ NotifyStep(t)
    \/ Return(t)

NextLive ==
    \E t \in Threads :
        \/ CallBeginUpdate(t, 1)
        \/ CallEndUpdate(t, 1)
        \/ CallPushBack(t, 1, 1)
        \/ CallPopBack(t, 1)
        \/ CallClear(t, 1)
        \/ LiveStep(t)

\* The container starts empty, outside a batch, with MaxObservers observers.
InitLive ==
    /\ InitShared
    /\ data_[1] = <<>>
    /\ Len(observers_[1]) = MaxObservers
    /\ defer_level_[1] = 0

SpecLive == InitLive /\ [][NextLive]_vars /\ \A t \in Threads : SF_vars(LiveStep(t))


\* ================================================================= claims
Mutations == {"push_back", "pop_back", "insert", "erase", "modify", "modify_rvalue",
              "clear"}

\* The invocation of callback cb by thread t for event ev of container c.
Invocation(cb, c, t, ev, depth) ==
    [cb |-> cb, c |-> c, by |-> t, type |-> ev.type, index |-> ev.index,
     oldValue |-> ev.oldValue, newValue |-> ev.newValue, newSize |-> ev.newSize,
     applied_depth |-> depth]

\* Each event of evs, in order, delivered to each callback of cbs, in order.
Deliveries(evs, cbs, c, t, depth) ==
    [k \in 1..(Len(evs) * Len(cbs)) |->
        Invocation(cbs[((k - 1) % Len(cbs)) + 1], c, t,
                   evs[((k - 1) \div Len(cbs)) + 1], depth)]

Returned(t, name) == pc[t] = "done" /\ args[t].op = name

\* No call on container c is between its first and its last step.
Quiet(c) == \A t \in Threads : this[t] = c => pc[t] \in {"idle", "done"}

\* C1: with one caller, while a batch is open on a container (at any nesting
\* depth, inner endUpdate calls included) no callback of that container is
\* invoked; the endUpdate that takes defer_level_ from 1 to 0 after the
\* contents changed invokes every registered callback exactly once, with
\* BatchUpdate, in registration order; and the elements are then the result
\* of applying the batch's mutations in order.
C1_BatchCoalescing ==
    /\ \A c \in Containers :
           defer_level_[c] > 0 => \A k \in 1..Len(log) : log[k].c # c
    /\ \A t \in Threads :
           Returned(t, "endUpdate") /\ pre[t].depth = 1 /\ pre[t].changed =>
               /\ log = Deliveries(<<BatchUpdate>>, Callbacks(observers_[this[t]]),
                                   this[t], t, 1)
               /\ data_[this[t]] = contents[this[t]]

C1_Witness ==
    \E t \in Threads :
        /\ Returned(t, "endUpdate") /\ pre[t].depth = 1 /\ pre[t].changed
        /\ nested[this[t]]
        /\ Len(data_[this[t]]) = MaxLen
        /\ Len(log) = 2 /\ log[1].cb # log[2].cb

\* C2: in every interleaving, a mutation applied to the elements while
\* defer_level_ > 0 is never delivered to a callback as an individual event,
\* and an event of a mutation applied while defer_level_ = 0 is never
\* absorbed into batch_changed_.
C2_DeferralDecidedWithMutation ==
    /\ \A k \in 1..Len(log) : log[k].type # "BatchUpdate" => log[k].applied_depth = 0
    /\ \A e \in suppressed : e.applied_depth > 0

\* Invocations of callback cb with an event of the given type.
Count(cb, type) ==
    Cardinality({k \in 1..Len(log) : log[k].cb = cb /\ log[k].type = type})

\* C3: when every one of the N threads has returned from its push_back on the
\* shared container (no batch open, observers fixed), the container holds N
\* elements more than before, and every observer was invoked exactly N times
\* with ElementAdded and N times with SizeChanged, each thread's ElementAdded
\* before the same thread's SizeChanged.
C3_ConcurrentAppends ==
    LET N == Cardinality(Threads)
    IN  (\A t \in Threads : Returned(t, "push_back")) =>
            /\ Len(data_[1]) = Len(data_[2]) + N
            /\ \A cb \in CallbackSet(observers_[1]) :
                   /\ Count(cb, "ElementAdded") = N
                   /\ Count(cb, "SizeChanged") = N
                   /\ \A t \in Threads : \E i, j \in 1..Len(log) :
                          /\ i < j
                          /\ log[i].cb = cb /\ log[i].by = t /\ log[i].type = "ElementAdded"
                          /\ log[j].cb = cb /\ log[j].by = t /\ log[j].type = "SizeChanged"

C3_Witness ==
    /\ \A t \in Threads : Returned(t, "push_back")
    /\ Len(observers_[1]) = MaxObservers
    /\ Len(data_[2]) = MaxLen
    /\ log[1].by # log[2].by

\* The events the finished call of thread t handed to callbacks.
Dispatched(t) ==
    IF args[t].op \in Mutations /\ pre[t].depth > 0 THEN <<>> ELSE pre[t].events

C5_SnapshotDispatch ==
    \A t \in Threads :
        pc[t] = "notify_unlock" =>
            IF should_call_observers[t]
            THEN /\ observers_to_call_functions[t] = Callbacks(observers_[this[t]])
                 /\ \A k \in 1..Len(observers_to_call_functions[t]) :
                        observers_to_call_functions[t][k] \notin removedCbs
            ELSE observers_to_call_functions[t] = <<>>

C5_Witness ==
    \E t \in Threads :
        /\ pc[t] = "notify_unlock" /\ should_call_observers[t]
        /\ observers_to_call_functions[t] # <<>>
        /\ \E k \in 1..Len(log) : log[k].cb \in removedCbs /\ log[k].by = t

\* Where a frame is about to lock the mutex of its container.
Locking == {"beginUpdate", "endUpdate", "addObserver", "removeObserver", "push_back",
            "pop_back", "notify_lock"}

\* C6: a thread that is invoking callbacks holds the mutex of no container,
\* and a method called from inside a callback on the same container finds
\* the mutex free whenever it is about to lock it.
C6_CallbackOutsideLock ==
    /\ \A t \in Threads : pc[t] = "dispatch" => \A c \in Containers : mutex_[c] # t
    /\ pc[1] = "dispatch" /\ pc[2] \in Locking => mutex_[this[2]] = NoThread

C6_Witness ==
    /\ pc[1] = "dispatch"
    /\ Returned(2, "push_back")
    /\ \E k \in 1..Len(log) : log[k].by = 2

\* C7: with calls made one at a time, on either container, the handle an
\* addObserver call returns is not zero and is greater than every handle
\* returned before, whether or not that observer has been removed since.
C7_HandlesNeverReused ==
    \A t \in Threads :
        Returned(t, "addObserver") =>
            /\ ret[t].handle > 0
            /\ \A h \in issued : ret[t].handle > h

C7_Witness ==
    \E t \in Threads :
        /\ Returned(t, "addObserver") /\ this[t] = 2
        /\ issued # {} /\ removedCbs # {}
        /\ observers_[1] = <<>>

\* C8: when two threads have each returned from an addObserver call made at
\* the same time on two different containers, the two handles differ and the
\* counter has advanced by two.
C8_ConcurrentHandlesDistinct ==
    \A t, u \in Threads :
        /\ t # u /\ this[t] # this[u]
        /\ Returned(t, "addObserver") /\ Returned(u, "addObserver")
        => /\ ret[t].handle # ret[u].handle
           /\ nextHandleId_ = Cardinality(issued) + 2

\* C9: whenever no call is in progress on a container, batch_changed_ is true
\* exactly when defer_level_ > 0 and some operation has changed the elements
\* since the outermost open batch was entered.
C9_PendingIffChangedInBatch ==
    \A c \in Containers : Quiet(c) => (batch_changed_[c] <=> changed[c])

\* C10: the endUpdate that closes a batch in which no operation changed the
\* elements invokes no callback.
C10_EmptyBatchSilent ==
    \A t \in Threads :
        Returned(t, "endUpdate") /\ ~pre[t].changed => log = <<>>

\* C11: defer_level_ is never negative; with one caller, an endUpdate called
\* at defer_level_ = 0 leaves defer_level_, batch_changed_, the elements and
\* the registry as they were and invokes no callback; and every mutation made
\* at defer_level_ = 0 has each of its events delivered to every registered
\* callback.
C11_UnbalancedEndUpdateNoOp ==
    /\ \A c \in Containers : defer_level_[c] >= 0
    /\ \A t \in Threads :
           Returned(t, "endUpdate") /\ pre[t].depth = 0 =>
               /\ defer_level_[this[t]] = 0
               /\ batch_changed_[this[t]] = pre[t].flag
               /\ data_[this[t]] = pre[t].data
               /\ observers_[this[t]] = pre[t].obs
               /\ log = <<>>
    /\ \A t \in Threads :
           pc[t] = "done" /\ args[t].op \in Mutations /\ pre[t].depth = 0 =>
               log = Deliveries(pre[t].events, Callbacks(observers_[this[t]]), this[t], t, 0)

C11_Witness ==
    \E t \in Threads :
        /\ Returned(t, "endUpdate") /\ pre[t].depth = 0
        /\ data_[this[t]] # <<>>
        /\ Len(observers_[this[t]]) = MaxObservers

C13_PushBackEvents ==
    \A t \in Threads :
        Returned(t, "push_back") /\ pre[t].depth = 0 =>
            /\ data_[this[t]] = pre[t].data \o <<args[t].v>>
            /\ log = Deliveries(<<ChangeEvent("ElementAdded", Len(pre[t].data), nullopt,
                                              args[t].v),
                                  ChangeEvent("SizeChanged", nullopt, nullopt, nullopt)>>,
                                Callbacks(pre[t].obs), this[t], t, 0)

C13_Witness ==
    \E t \in Threads :
        /\ Returned(t, "push_back") /\ pre[t].depth = 0
        /\ pre[t].data # <<>>
        /\ Len(pre[t].obs) = MaxObservers

\* C14: with one caller, pop_back on a non-empty container at
\* defer_level_ = 0 removes the last element and invokes every callback with
\* ElementRemoved (index = old size - 1, oldValue = that element) and then
\* with SizeChanged; pop_back on an empty container, at any depth, leaves the
\* elements, defer_level_ and batch_changed_ as they were and invokes nothing.
C14_PopBackEvents ==
    \A t \in Threads :
        Returned(t, "pop_back") =>
            LET old == pre[t].data
                n == Len(old)
            IN  /\ n > 0 /\ pre[t].depth = 0 =>
                       /\ data_[this[t]] = [k \in 1..(n - 1) |-> old[k]]
                       /\ log = Deliveries(
                              <<ChangeEvent("ElementRemoved", n - 1, old[n], nullopt),
                                ChangeEvent("SizeChanged", nullopt, nullopt, nullopt)>>,
                              Callbacks(pre[t].obs), this[t], t, 0)
                /\ n = 0 =>
                       /\ data_[this[t]] = <<>>
                       /\ defer_level_[this[t]] = pre[t].depth
                       /\ batch_changed_[this[t]] = pre[t].flag
                       /\ log = <<>>

C14_Witness ==
    \E t \in Threads :
        /\ Returned(t, "pop_back") /\ pre[t].depth = 0
        /\ Len(pre[t].data) = MaxLen
        /\ Len(pre[t].obs) = MaxObservers

\* C15: with one caller, insert at position i, 0 <= i <= size, at
\* defer_level_ = 0 puts v at index i, leaves the elements before i in place,
\* moves the former elements i..size-1 up by one in their order, and invokes
\* every callback with ElementAdded (index = i, newValue = v) and then with
\* SizeChanged, and nothing else.
C15_InsertEvents ==
    \A t \in Threads :
        Returned(t, "insert") /\ pre[t].depth = 0 /\ args[t].i \in 0..Len(pre[t].data) =>
            LET old == pre[t].data
                new == data_[this[t]]
                i == args[t].i
            IN  /\ Len(new) = Len(old) + 1
                /\ \A k \in 0..(Len(new) - 1) :
                       new[k + 1] = IF k < i THEN old[k + 1]
                                    ELSE IF k = i THEN args[t].v ELSE old[k]
                /\ log = Deliveries(
                       <<ChangeEvent("ElementAdded", i, nullopt, args[t].v),
                         ChangeEvent("SizeChanged", nullopt, nullopt, nullopt)>>,
                       Callbacks(pre[t].obs), this[t], t, 0)

\* An insert in front of an element that differs from the inserted value.
C15_Witness ==
    \E t \in Threads :
        /\ Returned(t, "insert") /\ pre[t].depth = 0
        /\ args[t].i < Len(pre[t].data)
        /\ pre[t].data[args[t].i + 1] # args[t].v
        /\ pre[t].obs # <<>>

\* C16: with one caller, erase at position i, 0 <= i < size, at
\* defer_level_ = 0 removes the element at index i and no other, keeps the
\* others in their order, and invokes every callback with ElementRemoved
\* (index = i, oldValue = the removed element) and then with SizeChanged, and
\* nothing else.
C16_EraseEvents ==
    \A t \in Threads :
        Returned(t, "erase") /\ pre[t].depth = 0 /\ args[t].i \in 0..(Len(pre[t].data) - 1) =>
            LET old == pre[t].data
                new == data_[this[t]]
                i == args[t].i
            IN  /\ Len(new) = Len(old) - 1
                /\ \A k \in 0..(Len(new) - 1) :
                       new[k + 1] = IF k < i THEN old[k + 1] ELSE old[k + 2]
                /\ log = Deliveries(
                       <<ChangeEvent("ElementRemoved", i, old[i + 1], nullopt),
                         ChangeEvent("SizeChanged", nullopt, nullopt, nullopt)>>,
                       Callbacks(pre[t].obs), this[t], t, 0)

\* An erase of the first of two different elements.
C16_Witness ==
    \E t \in Threads :
        /\ Returned(t, "erase") /\ pre[t].depth = 0
        /\ args[t].i = 0 /\ Len(pre[t].data) = MaxLen
        /\ pre[t].data[1] # pre[t].data[2]
        /\ pre[t].obs # <<>>

\* The index precondition of the call thread t has returned from failed:
\* erase at the end position, or either modify with index >= size.
IndexPreconditionFailed(t) ==
    /\ pc[t] = "done"
    /\ \/ args[t].op = "erase" /\ args[t].i = Len(pre[t].data)
       \/ args[t].op \in {"modify", "modify_rvalue"} /\ args[t].i >= Len(pre[t].data)

\* C17: with one caller, erase at the end position (also of an empty
\* container) and modify(i, v) with i >= size, at any depth, leave the
\* elements, the registry, defer_level_ and batch_changed_ as they were and
\* invoke no callback.
C17_FailedIndexNoOp ==
    \A t \in Threads :
        IndexPreconditionFailed(t) =>
            /\ data_[this[t]] = pre[t].data
            /\ observers_[this[t]] = pre[t].obs
            /\ defer_level_[this[t]] = pre[t].depth
            /\ batch_changed_[this[t]] = pre[t].flag
            /\ log = <<>>

\* The rvalue modify one past the end of a non-empty container, in a batch.
C17_Witness ==
    \E t \in Threads :
        /\ IndexPreconditionFailed(t) /\ args[t].op = "modify_rvalue"
        /\ pre[t].data # <<>> /\ pre[t].obs # <<>>
        /\ pre[t].depth > 0

ModifyContract(t) ==
    LET old == pre[t].data
        i == args[t].i
        v == args[t].v
    IN  IF old[i + 1] = v
        THEN /\ data_[this[t]] = old
             /\ batch_changed_[this[t]] = pre[t].flag
             /\ log = <<>>
        ELSE /\ data_[this[t]] = [old EXCEPT ![i + 1] = v]
             /\ pre[t].depth = 0 =>
                    log = Deliveries(<<ChangeEvent("ElementModified", i, old[i + 1], v)>>,
                                     Callbacks(pre[t].obs), this[t], t, 0)
             /\ pre[t].depth > 0 => log = <<>> /\ batch_changed_[this[t]]

\* C18: with one caller, modify(i, v) with a valid index, by either
\* overload: if v equals the element at i no callback is invoked and
\* batch_changed_ keeps its value; otherwise element i alone is replaced and,
\* at defer_level_ = 0, every callback is invoked once, with ElementModified
\* (index = i, oldValue = the previous element, newValue = v).
C18_ModifyEvents ==
    \A t \in Threads :
        /\ pc[t] = "done" /\ args[t].op \in {"modify", "modify_rvalue"}
        /\ args[t].i < Len(pre[t].data)
        => ModifyContract(t)

\* The same for the const-reference overload alone.
C18_ModifyLvalueEvents ==
    \A t \in Threads :
        Returned(t, "modify") /\ args[t].i < Len(pre[t].data) => ModifyContract(t)

\* C20: with one caller, a use of the reference returned by at(i), i < size,
\* at any depth: an assignment through it changes element i and nothing
\* else, a read changes nothing; neither invokes a callback nor changes
\* defer_level_, batch_changed_ or the registry.  batch_changed_ is false
\* outside a batch, beginUpdate leaves it as it is, and an endUpdate that
\* finds it false invokes nothing, so a batch of direct writes alone ends
\* with no event.
C20_DirectAccessSilent ==
    /\ \A t \in Threads :
           pc[t] \in {"at", "at_unlock", "reference"} => log = <<>> /\ pending[t] = <<>>
    /\ \A t \in Threads :
           Returned(t, "at") /\ ~ret[t].thrown =>
               /\ data_[this[t]] = IF args[t].v = nullopt THEN pre[t].data
                                   ELSE [pre[t].data EXCEPT ![args[t].i + 1] = args[t].v]
               /\ observers_[this[t]] = pre[t].obs
               /\ defer_level_[this[t]] = pre[t].depth
               /\ batch_changed_[this[t]] = pre[t].flag
               /\ log = <<>>
    /\ \A c \in Containers : defer_level_[c] = 0 /\ Quiet(c) => ~batch_changed_[c]
    /\ \A t \in Threads :
           Returned(t, "beginUpdate") => batch_changed_[this[t]] = pre[t].flag
    /\ \A t \in Threads : Returned(t, "endUpdate") /\ ~pre[t].flag => log = <<>>

\* An assignment through at() that changed an element inside a batch, with
\* an observer registered.
C20_Witness ==
    \E t \in Threads :
        /\ Returned(t, "at") /\ ~ret[t].thrown
        /\ args[t].v # nullopt
        /\ data_[this[t]] # pre[t].data
        /\ pre[t].depth > 0 /\ pre[t].obs # <<>>

\* C21: with one caller, every SizeChanged event handed to a callback has
\* newSize populated, and newSize is the size of the container the event
\* comes from (which, with one caller, is its size at the dispatch).
C21_SizeChangedCarriesNewSize ==
    \A k \in 1..Len(log) :
        log[k].type = "SizeChanged" =>
            /\ log[k].newSize # nullopt
            /\ log[k].newSize = Len(data_[log[k].c])

\* C22: every event handed to a callback has the fields of its kind and no
\* other: ElementAdded index and newValue; ElementRemoved index and oldValue;
\* ElementModified index, oldValue and newValue; SizeChanged and BatchUpdate
\* none of the three.
C22_FieldsByKind ==
    \A k \in 1..Len(log) :
        LET e == log[k]
            has == [index |-> e.index # nullopt, oldValue |-> e.oldValue # nullopt,
                    newValue |-> e.newValue # nullopt]
        IN  /\ e.type = "ElementAdded" => has.index /\ ~has.oldValue /\ has.newValue
            /\ e.type = "ElementRemoved" => has.index /\ has.oldValue /\ ~has.newValue
            /\ e.type = "ElementModified" => has.index /\ has.oldValue /\ has.newValue
            /\ e.type \in {"SizeChanged", "BatchUpdate"} =>
                   ~has.index /\ ~has.oldValue /\ ~has.newValue

\* An ElementModified event has reached a callback.
C22_Witness ==
    \E t \in Threads :
        /\ Returned(t, "modify")
        /\ log # <<>> /\ log[1].type = "ElementModified"

\* The callbacks are numbered in the order of the addObserver calls, so the
\* registry is in registration order when the numbers ascend along it.
InRegistrationOrder(obs) ==
    \A j, k \in 1..Len(obs) : j < k => obs[j][2] < obs[k][2]

\* C23: with one caller and defer_level_ = 0, each event of a mutation is
\* delivered once to every callback registered when the mutation was made,
\* in the order of the registry; the registry is in registration order; and
\* removeObserver leaves the other entries in the order they had.
C23_DispatchInRegistrationOrder ==
    /\ \A c \in Containers : InRegistrationOrder(observers_[c])
    /\ \A t \in Threads :
           pc[t] = "done" /\ args[t].op \in Mutations /\ pre[t].depth = 0 =>
               log = Deliveries(pre[t].events, Callbacks(pre[t].obs), this[t], t, 0)
    /\ \A t \in Threads :
           Returned(t, "removeObserver") =>
               LET Other(e) == e[1] # args[t].h
               IN  observers_[this[t]] = SelectSeq(pre[t].obs, Other)

\* The first and third registered callbacks, the second having been
\* removed, have received both events of a push_back, in that order.
C23_Witness ==
    \E t \in Threads :
        /\ Returned(t, "push_back")
        /\ Callbacks(pre[t].obs) = <<1, 3>>
        /\ Len(log) = 4
        /\ log[1].cb = 1 /\ log[2].cb = 3

\* The returned removeObserver of thread t was given a handle that was in
\* the registry.
WasRegistered(t) == \E k \in 1..Len(pre[t].obs) : pre[t].obs[k][1] = args[t].h

\* C24: with one caller, removeObserver returns true exactly when the handle
\* was registered; it then removes that entry and no other, and otherwise
\* leaves the registry as it was; in both cases the elements, defer_level_
\* and batch_changed_ are untouched, nothing is thrown and no callback is
\* invoked; and every callback left in the registry is invoked by each
\* event of a later mutation.
C24_RemoveObserverByHandle ==
    /\ \A t \in Threads :
           Returned(t, "removeObserver") =>
               LET old == pre[t].obs
                   new == observers_[this[t]]
               IN  /\ ret[t].removed = WasRegistered(t)
                   /\ ~ret[t].thrown
                   /\ ~WasRegistered(t) => new = old
                   /\ WasRegistered(t) =>
                          \E k \in 1..Len(old) :
                              /\ old[k][1] = args[t].h
                              /\ new = [j \in 1..(Len(old) - 1) |->
                                           IF j < k THEN old[j] ELSE old[j + 1]]
                   /\ data_[this[t]] = pre[t].data
                   /\ defer_level_[this[t]] = pre[t].depth
                   /\ batch_changed_[this[t]] = pre[t].flag
                   /\ log = <<>>
    /\ \A t \in Threads :
           pc[t] = "done" /\ args[t].op \in Mutations /\ pre[t].depth = 0 =>
               \A e \in 1..Len(pre[t].events), cb \in CallbackSet(observers_[this[t]]) :
                   \E k \in 1..Len(log) :
                       log[k].cb = cb /\ log[k].type = pre[t].events[e].type

\* A removeObserver with the handle of an observer that was removed
\* before, while two others are registered.
C24_Witness ==
    \E t \in Threads :
        /\ Returned(t, "removeObserver")
        /\ args[t].h \in issued /\ ~WasRegistered(t)
        /\ Len(pre[t].obs) = 2

\* Thread t is inside, or has just returned from, an assignment of the given
\* kind from a different container.
Assigning(t, name) ==
    /\ args[t].op = name
    /\ pc[t] # "idle"
    /\ this[t] # args[t].other

C28_EqualCopyAssignSilent ==
    \A t \in Threads :
        /\ Assigning(t, "copy_assign") /\ pc[t] \notin {"copy_assign"}
        /\ pre[t].data = data_[args[t].other]
        => /\ pre[t].events = <<>>
           /\ pending[t] = <<>>
           /\ pc[t] \in {"unlock", "done"}
           /\ data_[this[t]] = pre[t].data
           /\ log = <<>>

\* An assignment of equal, non-empty elements into a destination with an
\* observer.
C28_Witness ==
    \E t \in Threads :
        /\ Returned(t, "copy_assign") /\ Assigning(t, "copy_assign")
        /\ pre[t].data = data_[args[t].other] /\ pre[t].data # <<>>
        /\ pre[t].obs # <<>>

\* C29: with one caller, the step of a copy or move assignment of a
\* container to itself returns at once and changes nothing of any container
\* (elements, registry, defer_level_, batch_changed_, is_moved_from_) and
\* invokes no callback; and every push_back at defer_level_ = 0, hence one
\* that follows a self-assignment, delivers ElementAdded and then
\* SizeChanged to every callback of the registry.
C29_SelfAssignmentNoOp ==
    /\ [][\A t \in Threads :
             pc[t] \in {"copy_assign", "move_assign"} /\ this[t] = args[t].other =>
                 /\ pc'[t] = "done"
                 /\ pending'[t] = <<>>
                 /\ objectVars' = objectVars
                 /\ log' = <<>>]_vars
    /\ [](\A t \in Threads :
             Returned(t, "push_back") /\ pre[t].depth = 0 =>
                 /\ observers_[this[t]] = pre[t].obs
                 /\ log = Deliveries(<<ChangeEvent("ElementAdded", Len(pre[t].data), nullopt,
                                                   args[t].v), SizeChanged>>,
                                     Callbacks(observers_[this[t]]), this[t], t, 0))

\* A move assignment of a container to itself has returned; the container
\* has elements, an observer and an open batch with a recorded change.
C29_Witness ==
    \E t \in Threads :
        /\ Returned(t, "move_assign") /\ this[t] = args[t].other
        /\ data_[this[t]] # <<>> /\ observers_[this[t]] # <<>>
        /\ defer_level_[this[t]] > 0 /\ batch_changed_[this[t]]

\* The deliveries of a push_back that has returned on a container that is
\* outside a batch and was not moved from: ElementAdded and then SizeChanged
\* to every callback of that container's registry, and to no other.
OwnObserversNotified(t) ==
    log = Deliveries(<<ChangeEvent("ElementAdded", Len(pre[t].data), nullopt, args[t].v),
                       SizeChanged>>,
                     Callbacks(observers_[this[t]]), this[t], t, 0)

\* C25: when a copy construction has returned, the new container holds the
\* elements the source held, its registry is empty, its defer_level_ is 0 and
\* its batch_changed_ is false, whatever the deferral state of the source;
\* no callback was invoked; the source's elements, registry, defer_level_ and
\* batch_changed_ are what they were before.  No callback is ever registered
\* on both containers, and a push_back outside a batch on a container that
\* was not moved from invokes the callbacks of that container only.
C25_CopyConstruct ==
    /\ \A t \in Threads :
           Returned(t, "copy_construct") =>
               LET c == this[t]
                   o == args[t].other
               IN  /\ data_[c] = pre[t].data
                   /\ observers_[c] = <<>>
                   /\ defer_level_[c] = 0
                   /\ ~batch_changed_[c]
                   /\ log = <<>>
                   /\ data_[o] = pre[t].data
                   /\ observers_[o] = pre[t].obs
                   /\ defer_level_[o] = pre[t].depth
                   /\ batch_changed_[o] = pre[t].flag
    /\ \A c, o \in Containers :
           c # o => CallbackSet(observers_[c]) \cap CallbackSet(observers_[o]) = {}
    /\ \A t \in Threads :
           Returned(t, "push_back") /\ pre[t].depth = 0 /\ ~is_moved_from_[this[t]] =>
               /\ OwnObserversNotified(t)
               /\ \A k \in 1..Len(log) : log[k].c = this[t]

\* A copy construction has returned whose source has elements, an observer
\* and an open batch with a recorded change.
C25_Witness ==
    \E t \in Threads :
        /\ Returned(t, "copy_construct")
        /\ pre[t].data # <<>> /\ pre[t].obs # <<>>
        /\ pre[t].depth > 0 /\ pre[t].flag

\* C30: when a move construction has returned, the new container holds the
\* elements the source held, in their order, the source is empty, the new
\* container's registry is empty and no callback was invoked; a push_back
\* outside a batch on a container that was not moved from, the new container
\* included, delivers ElementAdded and then SizeChanged to every callback
\* registered on it since.
C30_MoveConstruct ==
    /\ \A t \in Threads :
           Returned(t, "move_construct") =>
               /\ data_[this[t]] = pre[t].data
               /\ data_[args[t].other] = <<>>
               /\ observers_[this[t]] = <<>>
               /\ log = <<>>
    /\ \A t \in Threads :
           Returned(t, "push_back") /\ pre[t].depth = 0 /\ ~is_moved_from_[this[t]] =>
               OwnObserversNotified(t)

\* Container 2 was move-constructed from container 1, which had an element
\* and an observer; an observer was registered on container 2 afterwards and
\* a push_back on container 2 has notified it.
C30_Witness ==
    \E t \in Threads :
        /\ Returned(t, "push_back") /\ this[t] = 2
        /\ is_moved_from_[1] /\ data_[1] = <<>> /\ clearedCbs # {}
        /\ Len(data_[2]) = MaxLen /\ log # <<>>

C32_MoveAssignClearsDestination ==
    \A t \in Threads :
        Returned(t, "move_assign") /\ Assigning(t, "move_assign") =>
            /\ data_[this[t]] = contents[this[t]]
            /\ data_[args[t].other] = <<>>
            /\ observers_[this[t]] = <<>>
            /\ \A k \in 1..Len(log) :
                   /\ log[k].cb \notin CallbackSet(pre[t].obs)
                   /\ log[k].cb \notin clearedCbs

LiveFrom(t, k, c) ==
    Cardinality({j \in k..Len(scopes[t]) :
                    ~scopes[t][j].destroyed /\ scopes[t][j].container_ref_ = c})

\* C34: between the calls of a caller that opens and closes batches through
\* ScopedModifier objects only, defer_level_ of the container exceeds its
\* value before a scope was entered by the number of that scope and the
\* scopes inside it that are alive, so it is back at that value when the
\* scope has been left, by whatever path; while a scope is alive no callback
\* is invoked; and the destructor of the outermost scope, when the contents
\* changed inside it, invokes every registered callback exactly once, with
\* BatchUpdate.
C34_ScopedModifier ==
    \A t \in Threads :
        /\ pc[t] \in {"idle", "done"} =>
               \A k \in 1..Len(scopes[t]) :
                   defer_level_[scopes[t][k].container_ref_] =
                       scopes[t][k].entered + LiveFrom(t, k, scopes[t][k].container_ref_)
        /\ LiveScopes(t) # <<>> => log = <<>>
        /\ /\ Returned(t, "endUpdate") /\ LiveScopes(t) = <<>>
           /\ pre[t].changed
           => log = Deliveries(<<BatchUpdate>>, Callbacks(observers_[this[t]]),
                               this[t], t, 1)

\* The destructor of an outermost scope has returned and delivered
\* BatchUpdate to MaxObservers observers; a scope had been nested inside it
\* and the container is back at the depth it had before the scope.
C34_Witness ==
    \E t \in Threads :
        /\ Returned(t, "endUpdate")
        /\ Len(scopes[t]) = 1 /\ scopes[t][1].destroyed
        /\ defer_level_[this[t]] = scopes[t][1].entered
        /\ pre[t].changed /\ nested[this[t]]
        /\ Len(log) = MaxObservers

\* C35: with one caller, at(i) (const_at(i) runs the same steps) throws
\* std::out_of_range exactly when i >= size; when it has thrown, the mutex
\* is free, no callback was invoked and none is pending, and the elements,
\* the registry, defer_level_ and batch_changed_ are what they were before
\* the call, so that the calls that follow start from the state the failed
\* access found.
C35_OutOfRangeAccess ==
    \A t \in Threads :
        Returned(t, "at") =>
            /\ ret[t].thrown <=> args[t].i >= Len(pre[t].data)
            /\ ret[t].thrown =>
                   /\ mutex_[this[t]] = NoThread
                   /\ log = <<>> /\ pending[t] = <<>>
                   /\ data_[this[t]] = pre[t].data
                   /\ contents[this[t]] = pre[t].data
                   /\ observers_[this[t]] = pre[t].obs
                   /\ defer_level_[this[t]] = pre[t].depth
                   /\ batch_changed_[this[t]] = pre[t].flag

\* An at() one past the end of a non-empty container with an observer has
\* thrown inside a batch with a recorded change.
C35_Witness ==
    \E t \in Threads :
        /\ Returned(t, "at") /\ ret[t].thrown
        /\ args[t].i = Len(pre[t].data) /\ pre[t].data # <<>>
        /\ pre[t].obs # <<>> /\ pre[t].depth > 0 /\ pre[t].flag

\* C36: with one caller, when a callback has thrown and the exception has
\* left the method, no mutex is held, the elements are the result of the
\* mutations applied so far (the one just made included), and the registry
\* and defer_level_ are what the critical section of the method left; and
\* between calls batch_changed_ is false whenever defer_level_ = 0, also
\* after an endUpdate whose BatchUpdate dispatch threw, so that an endUpdate
\* that finds no recorded change invokes nothing.
C36_ThrowingCallback ==
    /\ \A t \in Threads :
           Returned(t, args[t].op) /\ ret[t].thrown =>
               /\ \A c \in Containers : mutex_[c] = NoThread
               /\ data_[this[t]] = contents[this[t]]
               /\ observers_[this[t]] = pre[t].obs
               /\ pending[t] = <<>>
               /\ args[t].op = "endUpdate" =>
                      defer_level_[this[t]] = 0 /\ ~batch_changed_[this[t]]
    /\ \A c \in Containers : defer_level_[c] = 0 /\ Quiet(c) => ~batch_changed_[c]
    /\ \A t \in Threads : Returned(t, "endUpdate") /\ ~pre[t].flag => log = <<>>

\* The first of MaxObservers callbacks has thrown on the BatchUpdate of an
\* endUpdate that closed a batch in which the contents changed; the second
\* was not invoked.
C36_Witness ==
    \E t \in Threads :
        /\ Returned(t, "endUpdate") /\ ret[t].thrown
        /\ pre[t].changed /\ data_[this[t]] # <<>>
        /\ Len(pre[t].obs) = MaxObservers /\ Len(log) = 1

\* C37: in every interleaving, the second notify call of a method that
\* reports two events (ElementAdded or ElementRemoved, then SizeChanged)
\* decides as the first one did: should_call_observers, which the first call
\* left true when it dispatched and false when it recorded the change in
\* batch_changed_, has the same value after the critical section of the
\* second.
C37_PairSharesDeferralDecision ==
    [][\A t \in Threads :
           /\ pc[t] = "notify_lock" /\ pc'[t] = "notify_unlock"
           /\ Len(pre[t].events) = 2 /\ Len(pending[t]) = 1
           => should_call_observers'[t] = should_call_observers[t]]_vars

\* BatchUpdate invocations of callback cb made by thread t.
BatchUpdatesBy(t, cb) ==
    Cardinality({k \in 1..Len(log) :
                    log[k].by = t /\ log[k].cb = cb /\ log[k].type = "BatchUpdate"})

\* C38: in every interleaving of push_back and pop_back with beginUpdate and
\* endUpdate of two threads: the critical section of every notify call
\* either copies the whole registry for dispatch or leaves batch_changed_
\* set; batch_changed_ is never set at defer_level_ = 0; the endUpdate that
\* takes defer_level_ to 0 with batch_changed_ set clears it and has
\* BatchUpdate to report, that notify call is eventually made and decides
\* to dispatch, and when the endUpdate has returned every registered
\* callback was invoked once with it; and if every open batch is eventually
\* closed, batch_changed_ always becomes false again.
C38_NoChangeLost ==
    /\ [][\A t \in Threads :
             pc[t] = "notify_lock" /\ pc'[t] = "notify_unlock" =>
                 \/ /\ should_call_observers'[t]
                    /\ observers_to_call_functions'[t] = Callbacks(observers_[this[t]])
                 \/ /\ ~should_call_observers'[t]
                    /\ batch_changed_'[this[t]]]_vars
    /\ [](\A c \in Containers : defer_level_[c] = 0 => ~batch_changed_[c])
    /\ [][\A c \in Containers :
             defer_level_[c] > 0 /\ defer_level_'[c] = 0 /\ batch_changed_[c] =>
                 /\ ~batch_changed_'[c]
                 /\ \E t \in Threads :
                        /\ pc[t] = "endUpdate" /\ this[t] = c
                        /\ pending'[t] = <<BatchUpdate>>]_vars
    /\ \A t \in Threads :
           (pc[t] = "unlock" /\ pending[t] = <<BatchUpdate>>)
               ~> (Returned(t, "endUpdate") /\ should_call_observers[t])
    /\ [](\A t \in Threads :
             Returned(t, "endUpdate") /\ pre[t].events = <<BatchUpdate>> =>
                 \A cb \in CallbackSet(observers_[this[t]]) : BatchUpdatesBy(t, cb) = 1)
    /\ (defer_level_[1] > 0 ~> defer_level_[1] = 0)
           => (batch_changed_[1] ~> ~batch_changed_[1])

\* An endUpdate of one thread has delivered BatchUpdate for a change that
\* the other thread made and whose event was deferred.
C38_Witness ==
    \E t \in Threads :
        /\ Returned(t, "endUpdate") /\ pre[t].events = <<BatchUpdate>>
        /\ \E k \in 1..Len(log) : log[k].by = t /\ log[k].type = "BatchUpdate"
        /\ \E e \in suppressed : e.by # t

\* C39: the critical section of a move construction and of a move assignment
\* from a different container gives the destination the defer_level_ and
\* batch_changed_ the source had and leaves the source with 0 and false.
\* On a container that was not moved from, a push_back inside a batch,
\* inherited or not, invokes no callback and leaves batch_changed_ set, an
\* endUpdate lowers defer_level_ by one and invokes callbacks only when it
\* reaches 0, and a push_back at defer_level_ = 0 is delivered to the
\* registry: the events of a destination that inherited depth n stay
\* suppressed until endUpdate was called n times on it.
C39_MoveTransfersDeferral ==
    /\ [][\A t \in Threads :
             /\ pc[t] \in {"move_construct", "move_assign"} /\ pc'[t] = "unlock"
             /\ this[t] # args[t].other
             => /\ defer_level_'[this[t]] = defer_level_[args[t].other]
                /\ batch_changed_'[this[t]] = batch_changed_[args[t].other]
                /\ defer_level_'[args[t].other] = 0
                /\ ~batch_changed_'[args[t].other]]_vars
    /\ [](\A t \in Threads :
             Returned(t, "push_back") /\ ~is_moved_from_[this[t]] =>
                 IF pre[t].depth > 0
                 THEN log = <<>> /\ batch_changed_[this[t]]
                 ELSE OwnObserversNotified(t))
    /\ [](\A t \in Threads :
             Returned(t, "endUpdate") /\ pre[t].depth > 0 =>
                 /\ defer_level_[this[t]] = pre[t].depth - 1
                 /\ defer_level_[this[t]] > 0 => log = <<>>)

\* A push_back on container 2, which has an observer, has been suppressed
\* inside a batch of depth MaxDepth after container 2 received the elements
\* and the deferral state of container 1 by a move.
C39_Witness ==
    \E t \in Threads :
        /\ Returned(t, "push_back") /\ this[t] = 2
        /\ pre[t].depth = MaxDepth /\ pre[t].obs # <<>>
        /\ is_moved_from_[1] /\ ~is_moved_from_[2]
        /\ defer_level_[1] = 0

====
